---------------------------- MODULE Spec2Model ----------------------------
(***************************************************************************)
(* A model of the zinc reader of skywa04885/pyspark: the character-fed     *)
(* lexer (src/zinc/lexer.py), the lexical value readers (src/ztypes.py)    *)
(* and the recursive-descent parser (src/zinc/parser.py).                  *)
(*                                                                         *)
(* Text is a TLA+ string and a character is a string of length one, so     *)
(* that s[i] of the source is SubSeq(s, i+1, i+1) here (positions are      *)
(* 1-based).  An exception of the source is an error kind: every operator  *)
(* that can raise returns a record with a field err, "" when nothing was   *)
(* raised, and the first error raised is the one that propagates.          *)
(***************************************************************************)
EXTENDS Integers, Sequences, FiniteSets, TLC

VARIABLES
    input,      \* the characters the character source delivers
    pc,         \* where the pipeline of Client.eval / main stands
    pos,        \* ZincLexer.Context: current = input[pos], peek = input[pos+1]
    yielded,    \* the tokens ZincLexer.tokenize yields, in order
    yieldedEnd, \* for each of them, the position of `current` when it was yielded
    lexError,   \* the exception that ended ZincLexer.tokenize, or ""
    ctx,        \* ZincParser.Context: how many times it has resumed the generator
    ver,        \* parse_root: ver_.val
    meta,       \* parse_root: meta_
    cols,       \* parse_root: cols_
    rows,       \* parse_root: rows_
    colSpan,    \* the indices in yielded of the tokens parse_cols consumed
    rowSpans,   \* for each row of rows_, those of the tokens parse_row consumed
    result,     \* the value parse_root returned
    error,      \* the kind of the exception that ended the pipeline, or ""
    authPc,     \* where Client.authenticate stands
    requests,   \* the GET requests Client.authenticate has issued, in order
    responses,  \* the responses it has received, in order
    scram,      \* authenticate's locals: handshake_token and scram_client
    sessionHeaders, \* Client.session.headers
    authError,  \* the kind of the exception that left authenticate, or ""
    source,     \* ChunkedIteratorWrapper._source: the chunks it has yet to give
    buffer,     \* ChunkedIteratorWrapper._buffer
    read,       \* ChunkedIteratorWrapper._read
    reads       \* what each __anext__ so far gave: a character or the end

zincVars == <<input, pc, pos, yielded, yieldedEnd, lexError, ctx, ver, meta, cols, rows,
              colSpan, rowSpans, result, error>>
authVars == <<authPc, requests, responses, scram, sessionHeaders, authError>>
charVars == <<source, buffer, read, reads>>

vars == <<input, pc, pos, yielded, yieldedEnd, lexError, ctx, ver, meta, cols, rows,
          colSpan, rowSpans, result, error, authPc, requests, responses, scram,
          sessionHeaders, authError, source, buffer, read, reads>>

-----------------------------------------------------------------------------
(* Characters *)

None == "None"

\* The character at 1-based position p of s, None past its end.
At(s, p) == IF p >= 1 /\ p <= Len(s) THEN SubSeq(s, p, p) ELSE None

\* A TLA+ string cannot hold the character U+0060 (the delimiter of a zinc
\* URI): the model writes it as the apostrophe, which zinc gives no role, and
\* Ord gives it the code point 0x60.
Backtick == "'"

AsciiFrom32 == " !\"#$%&"
AsciiFrom40 == "()*+,-./0123456789:;<=>?@ABCDEFGHIJKLMNOPQRSTUVWXYZ[\\]^_"
AsciiFrom97 == "abcdefghijklmnopqrstuvwxyz{|}~"

\* The characters U+007F, U+0080 and U+0081, and the degree sign U+00B0.
Latin1From127 == ""
DegreeSign == "°"

IndexOf(table, c) == CHOOSE i \in 1..Len(table) : SubSeq(table, i, i) = c

\* ord(c) for the characters of the model: the printable ASCII range, the
\* control characters a document can hold and the characters about U+0080.
Ord(c) ==
    CASE c = "\t" -> 9
      [] c = "\n" -> 10
      [] c = "\f" -> 12
      [] c = "\r" -> 13
      [] c = Backtick -> 96
      [] c = DegreeSign -> 176
      [] c \in {SubSeq(Latin1From127, i, i) : i \in 1..Len(Latin1From127)} ->
            126 + IndexOf(Latin1From127, c)
      [] c \in {SubSeq(AsciiFrom32, i, i) : i \in 1..Len(AsciiFrom32)} ->
            31 + IndexOf(AsciiFrom32, c)
      [] c \in {SubSeq(AsciiFrom97, i, i) : i \in 1..Len(AsciiFrom97)} ->
            96 + IndexOf(AsciiFrom97, c)
      [] OTHER -> 39 + IndexOf(AsciiFrom40, c)

AlphaLo == {"a","b","c","d","e","f","g","h","i","j","k","l","m",
            "n","o","p","q","r","s","t","u","v","w","x","y","z"}
AlphaHi == {"A","B","C","D","E","F","G","H","I","J","K","L","M",
            "N","O","P","Q","R","S","T","U","V","W","X","Y","Z"}
Digits == {"0","1","2","3","4","5","6","7","8","9"}

-----------------------------------------------------------------------------
(* ZincGrammar *)

is_alpha_lo(c) == c \in AlphaLo
is_alpha_hi(c) == c \in AlphaHi
is_alpha(c) == is_alpha_lo(c) \/ is_alpha_hi(c)
is_digit(c) == c \in Digits
is_unit_char(c) ==
    is_alpha(c) \/ c = "%" \/ c = "_" \/ c = "/" \/ c = "$" \/ Ord(c) > 128
is_number_start(c) == is_digit(c) \/ c = "-"
is_hex_digit(c) ==
    c \in {"a","b","c","d","e","f"} \/ c \in {"A","B","C","D","E","F"} \/ is_digit(c)
is_ref_char(c) ==
    is_alpha(c) \/ is_digit(c) \/ c = "_" \/ c = ":" \/ c = "-" \/ c = "." \/ c = "~"
is_id_start(c) == is_alpha_lo(c)
is_id_part(c) == is_alpha(c) \/ is_digit(c) \/ c = "_"
is_keyword_start(c) == is_alpha_hi(c)
is_keyword_part(c) == is_alpha(c)
is_ref_start(c) == c = "@"
is_ref_part(c) == is_ref_char(c)
is_ref_end(c) == c = " "
is_symbol_start(c) == c = "^"
is_symbol_part(c) == is_ref_char(c)
is_str_start(c) == c = "\""
is_str_escape(c) == c = "\\"
is_uri_escape(c) == c = "\\"
is_uri_escaped_uni(c) == c = "u"
is_str_escaped_char(c) == c \in {"b", "f", "n", "r", "t", "\\", "$", "\""}
is_str_escped_uni(c) == c = "u"
is_str_end(c) == c = "\""
is_uri_start(c) == c = Backtick
is_uri_escaped_char(c) ==
    c \in {":", "/", "?", "#", "[", "]", "@", Backtick, "\\", "&", "=", ";"}
is_uri_end(c) == c = Backtick
is_whitespace(c) == c = " " \/ c = "\t" \/ Ord(c) = 160
\* The variant of is_unicode_char that takes every character.
is_any_char(c) == TRUE
is_unicode_char(c) == Ord(c) >= 32
is_nan(s) == s = "NaN"
is_pos_inf(s) == s = "INF"
is_neg_inf(s) == s = "-INF"
is_digits_start(c) == is_digit(c)
is_digits_part(c) == is_digit(c) \/ c = "_"

RECURSIVE is_unit_from(_, _)
is_unit_from(s, i) ==
    IF i > Len(s) THEN TRUE
    ELSE IF ~is_unit_char(At(s, i)) THEN FALSE
    ELSE is_unit_from(s, i + 1)
is_unit(s) == is_unit_from(s, 1)

-----------------------------------------------------------------------------
(* Tokens (src/zinc/token.py) *)

ZincTokenType ==
    {"KEYWORD", "IDENTIFIER", "SYMBOL", "REF", "STR", "DATE", "DATETIME", "TIME",
     "URI", "NUMBER", "GRID_START", "GRID_END", "BOOL", "LPAREN", "RPAREN",
     "LBRACKET", "RBRACKET", "LBRACE", "RBRACE", "COLON", "COMMA", "LINEFEED"}

ZincToken(t, s) == [t |-> t, s |-> s]

\* anext(it, None) of a finished token iterator.
NoToken == [t |-> None, s |-> ""]

-----------------------------------------------------------------------------
(* ZincLexer (src/zinc/lexer.py).  A lexer context is the position p of      *)
(* `current` in the input (`peek` is the character after it) and the list    *)
(* `segments` the current token is accumulated in.                           *)

LexicalError == "LexicalError"

_TRIVIAL_TOKEN_TABLE(c) ==
    CASE c = "(" -> "LPAREN"
      [] c = ")" -> "RPAREN"
      [] c = "[" -> "LBRACKET"
      [] c = "]" -> "RBRACKET"
      [] c = "{" -> "LBRACE"
      [] c = "}" -> "RBRACE"
      [] c = ":" -> "COLON"
      [] c = "," -> "COMMA"
      [] c = "\n" -> "LINEFEED"
      [] OTHER -> None

\* Python evaluates an argument once, before the call: K applied to the
\* value of v.
Once(v, K(_)) == CHOOSE y \in {K(x) : x \in {v}} : TRUE

\* An exception leaves every frame between its raise and its handler: a
\* step that raised is the outcome, and K is what follows a step that did not.
Then(r, K(_)) == Once(r, LAMBDA x : IF x.err # "" THEN x ELSE K(x))

LexCtx(p, segs) == [p |-> p, segs |-> segs]

\* Tester = Callable[[str], bool]: the predicates of ZincGrammar that the
\* lexer passes to its context, by name.
Tester(tester, c) ==
    CASE tester = "is_id_start" -> is_id_start(c)
      [] tester = "is_id_part" -> is_id_part(c)
      [] tester = "is_keyword_start" -> is_keyword_start(c)
      [] tester = "is_keyword_part" -> is_keyword_part(c)
      [] tester = "is_symbol_start" -> is_symbol_start(c)
      [] tester = "is_symbol_part" -> is_symbol_part(c)
      [] tester = "is_ref_start" -> is_ref_start(c)
      [] tester = "is_ref_part" -> is_ref_part(c)
      [] tester = "is_ref_end" -> is_ref_end(c)
      [] tester = "is_str_start" -> is_str_start(c)
      [] tester = "is_str_escape" -> is_str_escape(c)
      [] tester = "is_str_escaped_char" -> is_str_escaped_char(c)
      [] tester = "is_str_escped_uni" -> is_str_escped_uni(c)
      [] tester = "is_str_end" -> is_str_end(c)
      [] tester = "is_uri_start" -> is_uri_start(c)
      [] tester = "is_uri_escape" -> is_uri_escape(c)
      [] tester = "is_uri_escaped_char" -> is_uri_escaped_char(c)
      [] tester = "is_uri_escaped_uni" -> is_uri_escaped_uni(c)
      [] tester = "is_uri_end" -> is_uri_end(c)
      [] tester = "is_unicode_char" -> is_unicode_char(c)
      [] tester = "is_hex_digit" -> is_hex_digit(c)
      [] tester = "is_number_start" -> is_number_start(c)

\* Context.consume_if(tester, segments) returns whether it consumed.
LexAccepts(in, L, tester) == At(in, L.p) # None /\ Tester(tester, At(in, L.p))
\* The variant of LexTake that moves on without keeping the character.
LexTakeDropped(in, L) == LexCtx(L.p + 1, L.segs)
\* What consume_if does when it returns True: segments.append(current); next().
LexTake(in, L) == Once(L, LAMBDA x : LexCtx(x.p + 1, x.segs \o At(in, x.p)))
LexConsumeIf(in, L, tester) == IF LexAccepts(in, L, tester) THEN LexTake(in, L) ELSE L

RECURSIVE vomit_whitespace(_, _)
vomit_whitespace(in, p) ==
    IF At(in, p) # None /\ is_whitespace(At(in, p)) THEN vomit_whitespace(in, p + 1) ELSE p

LexDone(L, t) == [err |-> "", p |-> L.p, segs |-> L.segs, t |-> t]
LexRaise(L) == [err |-> LexicalError, p |-> L.p, segs |-> L.segs, t |-> None]

RECURSIVE _consume_identifier(_, _)
_consume_identifier(in, L) ==
    IF LexAccepts(in, L, "is_id_part")
    THEN _consume_identifier(in, LexTake(in, L))
    ELSE LexDone(L, "IDENTIFIER")

RECURSIVE _consume_keyword(_, _)
_consume_keyword(in, L) ==
    IF LexAccepts(in, L, "is_keyword_part")
    THEN _consume_keyword(in, LexTake(in, L))
    ELSE LexDone(L, "KEYWORD")

RECURSIVE _consume_symbol(_, _)
_consume_symbol(in, L) ==
    IF LexAccepts(in, L, "is_symbol_part")
    THEN _consume_symbol(in, LexTake(in, L))
    ELSE LexDone(L, "SYMBOL")

RECURSIVE _consume_ref(_, _)
_consume_ref(in, L) ==
    IF LexAccepts(in, L, "is_ref_part")
    THEN _consume_ref(in, LexTake(in, L))
    ELSE LexDone(LexConsumeIf(in, L, "is_ref_end"), "REF")

\* for _ in range(0, 4): await context.consume(is_hex_digit, segments)
RECURSIVE ConsumeHexDigits(_, _, _)
ConsumeHexDigits(in, L, n) ==
    IF n = 0 THEN LexDone(L, None)
    ELSE IF ~LexAccepts(in, L, "is_hex_digit") THEN LexRaise(L)
    ELSE ConsumeHexDigits(in, LexTake(in, L), n - 1)

RECURSIVE _consume_str(_, _)
_consume_str(in, L) ==
    IF At(in, L.p) = None THEN LexRaise(L)
    ELSE IF LexAccepts(in, L, "is_str_escape") THEN
        LET L1 == LexTake(in, L) IN
        IF LexAccepts(in, L1, "is_str_escaped_char")
        THEN _consume_str(in, LexTake(in, L1))
        ELSE IF LexAccepts(in, L1, "is_str_escped_uni")
        THEN Then(ConsumeHexDigits(in, LexTake(in, L1), 4),
                  LAMBDA r : _consume_str(in, LexCtx(r.p, r.segs)))
        ELSE LexRaise(L1)
    ELSE IF LexAccepts(in, L, "is_str_end")
    THEN LexDone(LexTake(in, L), "STR")
    ELSE IF LexAccepts(in, L, "is_unicode_char")
    THEN _consume_str(in, LexTake(in, L))
    ELSE LexRaise(L)

RECURSIVE _consume_uri(_, _)
_consume_uri(in, L) ==
    IF At(in, L.p) = None THEN LexRaise(L)
    ELSE IF LexAccepts(in, L, "is_uri_escape") THEN
        LET L1 == LexTake(in, L) IN
        IF LexAccepts(in, L1, "is_uri_escaped_char")
        THEN _consume_uri(in, LexTake(in, L1))
        ELSE IF LexAccepts(in, L1, "is_uri_escaped_uni")
        THEN Then(ConsumeHexDigits(in, LexTake(in, L1), 4),
                  LAMBDA r : _consume_uri(in, LexCtx(r.p, r.segs)))
        ELSE LexRaise(L1)
    ELSE IF LexAccepts(in, L, "is_uri_end")
    THEN LexDone(LexTake(in, L), "URI")
    ELSE IF LexAccepts(in, L, "is_unicode_char")
    THEN _consume_uri(in, LexTake(in, L))
    ELSE LexRaise(L)

\* The variant of NumberKind that takes two dashes or more for a date.
NumberKindOfDashes(dashes, colons) ==
    IF dashes >= 2 THEN "DATE"
    ELSE IF dashes = 0 /\ colons > 1 THEN "TIME"
    ELSE "NUMBER"

\* The classification after the loop of _consume_number.
NumberKind(dashes, colons) ==
    IF dashes = 2 /\ colons = 0 THEN "DATE"
    ELSE IF dashes = 0 /\ colons > 1 THEN "TIME"
    ELSE IF dashes > 2 THEN "DATETIME"
    ELSE "NUMBER"

\* The loop of _consume_number; N holds p, segs and the four locals.  The
\* branch `unit_found and is_digit(current)` under current == "_" tests the
\* underscore itself and is never taken.
RECURSIVE NumberLoop(_, _)
NumberLoop(in, N) ==
    LET current == At(in, N.p)
        pk == At(in, N.p + 1)
        eat == Once(N, LAMBDA x : [x EXCEPT !.p = @ + 1, !.segs = @ \o At(in, x.p)])
        stop == LexDone(LexCtx(N.p, N.segs), NumberKind(N.dashes, N.colons))
    IN  IF current = None THEN stop
        ELSE IF is_digit(current) THEN NumberLoop(in, eat)
        ELSE IF N.exp /\ current \in {"+", "-"} THEN NumberLoop(in, eat)
        ELSE IF current = "-" THEN NumberLoop(in, [eat EXCEPT !.dashes = @ + 1])
        ELSE IF current = ":" /\ pk # None /\ is_digit(pk)
             THEN NumberLoop(in, [eat EXCEPT !.colons = @ + 1])
        ELSE IF (N.exp \/ N.colons >= 1) /\ current = "+" THEN NumberLoop(in, eat)
        ELSE IF current = "." THEN
            IF pk = None \/ ~is_digit(pk) THEN stop ELSE NumberLoop(in, eat)
        ELSE IF current \in {"e", "E"} /\ pk # None /\ (pk \in {"-", "+"} \/ is_digit(pk))
             THEN NumberLoop(in, [eat EXCEPT !.exp = TRUE])
        ELSE IF is_alpha(current) \/ current \in {"%", "$", "/"} \/ Ord(current) > 128
             THEN NumberLoop(in, [eat EXCEPT !.unit_found = TRUE])
        ELSE IF current = "_" THEN
            IF N.unit_found /\ is_digit(current) THEN NumberLoop(in, eat)
            ELSE NumberLoop(in, [eat EXCEPT !.unit_found = TRUE])
        ELSE stop

_consume_number(in, L) ==
    NumberLoop(in, [p |-> L.p, segs |-> L.segs, colons |-> 0, dashes |-> 0,
                    unit_found |-> FALSE, exp |-> FALSE])

\* The type tokenize gives the digraph ">>" (lexer.py line 269).
GridEndDigraphType == "GRID_START"

\* The branches of tokenize that scan a token from `current`, which is not
\* None and not whitespace: [err, p, segs, t], t = None when no branch took it.
TokenizeBranch(in, L) ==
    IF LexAccepts(in, L, "is_id_start")
    THEN _consume_identifier(in, LexTake(in, L))
    ELSE IF LexAccepts(in, L, "is_keyword_start")
    THEN _consume_keyword(in, LexTake(in, L))
    ELSE IF LexAccepts(in, L, "is_symbol_start")
    THEN _consume_symbol(in, LexTake(in, L))
    ELSE IF LexAccepts(in, L, "is_ref_start")
    THEN _consume_ref(in, LexTake(in, L))
    ELSE IF LexAccepts(in, L, "is_str_start")
    THEN _consume_str(in, LexTake(in, L))
    ELSE IF LexAccepts(in, L, "is_uri_start")
    THEN _consume_uri(in, LexTake(in, L))
    ELSE IF LexAccepts(in, L, "is_number_start")
    THEN _consume_number(in, LexTake(in, L))
    ELSE IF At(in, L.p) = "<" /\ At(in, L.p + 1) = "<"
    THEN LexDone(LexCtx(L.p + 2, L.segs \o "<<"), "GRID_START")
    ELSE IF At(in, L.p) = ">" /\ At(in, L.p + 1) = ">"
    THEN LexDone(LexCtx(L.p + 2, L.segs \o ">>"), GridEndDigraphType)
    ELSE LexDone(L, None)

\* One resumption of the generator ZincLexer.tokenize with `current` at p:
\* [err, p, tok].  tok = NoToken when the generator returns (end of stream);
\* err = LexicalError when it raises.
tokenize(in, p) ==
    LET Trivial(L) ==
            IF At(in, L.p) = None THEN [err |-> LexicalError, p |-> L.p, tok |-> NoToken]
            ELSE IF _TRIVIAL_TOKEN_TABLE(At(in, L.p)) = None
            THEN [err |-> LexicalError, p |-> L.p + 1, tok |-> NoToken]
            ELSE [err |-> "", p |-> L.p + 1,
                  tok |-> ZincToken(_TRIVIAL_TOKEN_TABLE(At(in, L.p)), L.segs \o At(in, L.p))]
        Yield(b) ==
            IF b.err # "" THEN [err |-> b.err, p |-> b.p, tok |-> NoToken]
            ELSE IF b.t # None THEN [err |-> "", p |-> b.p, tok |-> ZincToken(b.t, b.segs)]
            ELSE Trivial(LexCtx(b.p, b.segs))
        Scan(p1) ==
            IF At(in, p1) = None THEN [err |-> "", p |-> p1, tok |-> NoToken]
            ELSE Once(TokenizeBranch(in, LexCtx(p1, "")), LAMBDA b : Yield(b))
    IN Once(vomit_whitespace(in, p), LAMBDA p1 : Scan(p1))

\* `async for token in ZincLexer.tokenize(context)`: the generator resumed
\* from position p until it returns or raises; toks and ends are what it has
\* yielded before.
RECURSIVE TokenizeFrom(_, _, _, _)
TokenizeFrom(in, p, toks, ends) ==
    LET Resume(r) ==
            IF r.err # "" \/ r.tok = NoToken
            THEN [toks |-> toks, ends |-> ends, err |-> r.err]
            ELSE TokenizeFrom(in, r.p, Append(toks, r.tok), Append(ends, r.p))
    IN Resume(tokenize(in, p))

Tokens(in) == TokenizeFrom(in, 1, <<>>, <<>>)

-----------------------------------------------------------------------------
(* The value model (src/ztypes.py).  A value is a record whose field k      *)
(* names its class.  A float that a reader computes is kept exactly, as the *)
(* decimal m * 10^e with no trailing zero in m (sp = ""), or as one of the  *)
(* specials NaN, INF, -INF (sp names it).                                   *)

ReadException == "ReadException"
InvalidAttributeError == "InvalidAttributeError"
ValueError == "ValueError"
IndexError == "IndexError"

Ok(v) == [err |-> "", val |-> v]
Raise(kind) == [err |-> kind, val |-> [k |-> None]]

HNull == [k |-> "Null"]
HMarker == [k |-> "Marker"]
HRemove == [k |-> "Remove"]
HNa == [k |-> "NA"]
HBool(b) == [k |-> "Bool", val |-> b]
HStr(v) == [k |-> "Str", val |-> v]
HUri(v) == [k |-> "Uri", val |-> v]
HSymbol(v) == [k |-> "Symbol", val |-> v]
HRef(v, name) == [k |-> "Ref", val |-> v, name |-> name]
HDate(v) == [k |-> "Date", val |-> v]
HTime(v) == [k |-> "Time", val |-> v]
HDateTime(v) == [k |-> "DateTime", val |-> v]
HXstr(type_, str_) == [k |-> "XStr", type_ |-> type_, str_ |-> str_]
HBin(mime) == [k |-> "Bin", mime |-> mime]
HList(v) == [k |-> "List", val |-> v]
HDict(v) == [k |-> "Dict", val |-> v]
HCol(index, name, meta_) == [index |-> index, name |-> name, meta |-> meta_]
HRow(cells) == cells
HGrid(meta_, cols_, rows_) == [k |-> "Grid", meta |-> meta_, cols |-> cols_, rows |-> rows_]

\* The value of a variable that holds no value yet.
NoVal == [k |-> None]

RECURSIVE Pow10(_)
Pow10(n) == IF n <= 0 THEN 1 ELSE 10 * Pow10(n - 1)

RECURSIVE Normal(_, _)
Normal(m, e) ==
    IF m = 0 THEN [sp |-> "", m |-> 0, e |-> 0]
    ELSE IF m % 10 = 0 THEN Normal(m \div 10, e + 1)
    ELSE [sp |-> "", m |-> m, e |-> e]

FloatNaN == [sp |-> "NaN", m |-> 0, e |-> 0]
FloatPosInf == [sp |-> "INF", m |-> 0, e |-> 0]
FloatNegInf == [sp |-> "-INF", m |-> 0, e |-> 0]

\* a <= b on floats: false when either is NaN.
FloatLeq(a, b) ==
    IF a.sp = "NaN" \/ b.sp = "NaN" THEN FALSE
    ELSE IF a.sp = "-INF" \/ b.sp = "INF" THEN TRUE
    ELSE IF a.sp = "INF" \/ b.sp = "-INF" THEN FALSE
    ELSE LET lo == IF a.e < b.e THEN a.e ELSE b.e
         IN a.m * Pow10(a.e - lo) <= b.m * Pow10(b.e - lo)

\* HNum(val, unit) with HNum.__post_init__.
HNum(val, unit) ==
    IF unit # None /\ ~is_unit(unit) THEN Raise(InvalidAttributeError)
    ELSE Ok([k |-> "Num", val |-> val, unit |-> unit])

\* The variant of HCoord that checks the latitude alone.
HCoordLatOnly(lat, lon) ==
    IF ~(FloatLeq(Normal(-90, 0), lat) /\ FloatLeq(lat, Normal(90, 0)))
    THEN Raise(InvalidAttributeError)
    ELSE Ok([k |-> "Coord", lat |-> lat, lon |-> lon])

\* HCoord.make with HCoord.__post_init__.
HCoord(lat, lon) ==
    IF ~(FloatLeq(Normal(-90, 0), lat) /\ FloatLeq(lat, Normal(90, 0)))
    THEN Raise(InvalidAttributeError)
    ELSE IF ~(FloatLeq(Normal(-180, 0), lon) /\ FloatLeq(lon, Normal(180, 0)))
    THEN Raise(InvalidAttributeError)
    ELSE Ok([k |-> "Coord", lat |-> lat, lon |-> lon])

-----------------------------------------------------------------------------
(* HZincReader (src/ztypes.py).  Ch(s, i) is s[i] of the source (0-based), *)
(* None when i is out of range, and Slice(s, i, j) is s[i:j].               *)

Ch(s, i) == At(s, i + 1)
Min(a, b) == IF a <= b THEN a ELSE b
Slice(s, i, j) == SubSeq(s, i + 1, Min(j, Len(s)))

DigitValue(c) == IndexOf("0123456789", c) - 1

\* float(t) for a text t of digits and underscores: Python takes an underscore
\* only between two digits and raises ValueError for any other.
RECURSIVE DigitsValue(_, _, _)
DigitsValue(t, i, acc) ==
    IF i >= Len(t) THEN [err |-> "", val |-> acc]
    ELSE IF Ch(t, i) = "_" THEN
        IF i = 0 \/ i + 1 >= Len(t) \/ Ch(t, i - 1) = "_" \/ Ch(t, i + 1) = "_"
        THEN [err |-> ValueError, val |-> 0]
        ELSE DigitsValue(t, i + 1, acc)
    ELSE DigitsValue(t, i + 1, 10 * acc + DigitValue(Ch(t, i)))
FloatOfDigits(t) == DigitsValue(t, 0, 0)

\* The index of the first character at or after i that is not a digits part.
RECURSIVE SkipDigitsPart(_, _)
SkipDigitsPart(s, i) ==
    IF i < Len(s) /\ is_digits_part(Ch(s, i)) THEN SkipDigitsPart(s, i + 1) ELSE i

RECURSIVE SkipUnitChars(_, _)
SkipUnitChars(s, i) ==
    IF i < Len(s) /\ is_unit_char(Ch(s, i)) THEN SkipUnitChars(s, i + 1) ELSE i

read_bool(s) ==
    IF s = "T" THEN Ok(HBool(TRUE))
    ELSE IF s = "F" THEN Ok(HBool(FALSE))
    ELSE Raise(ReadException)

\* The arithmetic that ends read_num: sign * float(digits), plus the decimals
\* over 10 ** len(decimals), times 10 ** the signed exponent.
NumValue(sign, digits, decimals, exponent_sign, exponent) ==
    LET d == FloatOfDigits(digits)
        f == IF decimals = None THEN [err |-> "", val |-> 0] ELSE FloatOfDigits(decimals)
        x == IF exponent = None THEN [err |-> "", val |-> 0] ELSE FloatOfDigits(exponent)
        n == IF decimals = None THEN 0 ELSE Len(decimals)
    IN  IF d.err # "" THEN Raise(d.err)
        ELSE IF f.err # "" THEN Raise(f.err)
        ELSE IF x.err # "" THEN Raise(x.err)
        ELSE Ok(Normal(sign * (d.val * Pow10(n) + f.val), exponent_sign * x.val - n))

\* The variant of ReadNumUnit that returns with text left after the unit.
ReadNumUnitUnchecked(s, i, sign, digits, decimals, exponent_sign, exponent) ==
    LET j == SkipUnitChars(s, i)
        unit == IF j # i THEN Slice(s, i, j) ELSE None
        num == NumValue(sign, digits, decimals, exponent_sign, exponent)
    IN  IF num.err # "" THEN num ELSE HNum(num.val, unit)

\* read_num from the unit on: i is where the unit starts.
ReadNumUnit(s, i, sign, digits, decimals, exponent_sign, exponent) ==
    LET j == SkipUnitChars(s, i)
        unit == IF j # i THEN Slice(s, i, j) ELSE None
        num == NumValue(sign, digits, decimals, exponent_sign, exponent)
    IN  IF j # Len(s) THEN Raise(ReadException)
        ELSE IF num.err # "" THEN num
        ELSE HNum(num.val, unit)

\* read_num from the exponent on.
ReadNumExponent(s, i, sign, digits, decimals) ==
    IF i + 1 < Len(s) /\ Ch(s, i) \in {"e", "E"}
       /\ (Ch(s, i + 1) \in {"-", "+"} \/ is_digit(Ch(s, i + 1)))
    THEN LET i1 == i + 1
             exponent_sign == IF i1 < Len(s) /\ Ch(s, i1) = "-" THEN -1 ELSE 1
             j == IF i1 < Len(s) /\ Ch(s, i1) \in {"+", "-"} THEN i1 + 1 ELSE i1
         IN IF j = Len(s) \/ ~is_digits_start(Ch(s, j)) THEN Raise(ReadException)
            ELSE LET i2 == SkipDigitsPart(s, j + 1)
                 IN ReadNumUnit(s, i2, sign, digits, decimals, exponent_sign, Slice(s, j, i2))
    ELSE ReadNumUnit(s, i, sign, digits, decimals, 1, None)

\* read_num from the decimals on.
ReadNumDecimals(s, i, sign, digits) ==
    IF i < Len(s) /\ Ch(s, i) = "."
    THEN LET j == i + 1
         IN IF j = Len(s) \/ ~is_digits_start(Ch(s, j)) THEN Raise(ReadException)
            ELSE LET i2 == SkipDigitsPart(s, j + 1)
                 IN ReadNumExponent(s, i2, sign, digits, Slice(s, j, i2))
    ELSE ReadNumExponent(s, i, sign, digits, None)

read_num(s) ==
    IF is_nan(s) THEN Ok([k |-> "Num", val |-> FloatNaN, unit |-> None])
    ELSE IF is_pos_inf(s) THEN Ok([k |-> "Num", val |-> FloatPosInf, unit |-> None])
    ELSE IF is_neg_inf(s) THEN Ok([k |-> "Num", val |-> FloatNegInf, unit |-> None])
    ELSE IF Len(s) = 0 THEN Raise(IndexError)
    ELSE LET sign == IF Ch(s, 0) = "-" THEN -1 ELSE 1
             j == IF Ch(s, 0) = "-" THEN 1 ELSE 0
         IN IF j >= Len(s) THEN Raise(IndexError)
            ELSE IF ~is_digits_start(Ch(s, j)) THEN Raise(ReadException)
            ELSE LET i == SkipDigitsPart(s, j + 1)
                 IN ReadNumDecimals(s, i, sign, Slice(s, j, i))

\* The loop of read_uri: r is the text decoded so far.
RECURSIVE ReadUriLoop(_, _, _)
ReadUriLoop(s, i, r) ==
    IF i >= Len(s) THEN Raise(ReadException)
    ELSE LET c == Ch(s, i)
             pk == Ch(s, i + 1)
         IN IF c = Backtick
            THEN IF i + 1 # Len(s) THEN Raise(ReadException) ELSE Ok(HUri(r))
            ELSE IF c = "\\" THEN
                IF pk \in {":", "/", "?", "#", "[", "]", "@", "\\", "&", "=", ";"}
                THEN ReadUriLoop(s, i + 2, r \o c \o pk)
                ELSE IF pk = Backtick THEN ReadUriLoop(s, i + 2, r \o pk)
                ELSE Raise(ReadException)
            ELSE ReadUriLoop(s, i + 1, r \o c)

read_uri(s) ==
    IF Len(s) < 2 THEN Raise(ReadException)
    ELSE IF Ch(s, 0) # Backtick THEN Raise(ReadException)
    ELSE ReadUriLoop(s, 1, "")

RECURSIVE HexValue(_, _, _)
HexValue(t, i, acc) ==
    IF i >= Len(t) THEN acc
    ELSE HexValue(t, i + 1,
            16 * acc + ((IndexOf("0123456789abcdef0123456789ABCDEF", Ch(t, i)) - 1) % 16))

\* chr(n): the character of the model with that code point; a code point the
\* model has no character for is written as the text <U+n>.
Chr(n) ==
    CASE n = 9 -> "\t"
      [] n = 10 -> "\n"
      [] n = 12 -> "\f"
      [] n = 13 -> "\r"
      [] n = 96 -> Backtick
      [] n = 176 -> DegreeSign
      [] n >= 127 /\ n < 127 + Len(Latin1From127) -> SubSeq(Latin1From127, n - 126, n - 126)
      [] n >= 32 /\ n < 32 + Len(AsciiFrom32) -> SubSeq(AsciiFrom32, n - 31, n - 31)
      [] n >= 40 /\ n < 40 + Len(AsciiFrom40) -> SubSeq(AsciiFrom40, n - 39, n - 39)
      [] n >= 97 /\ n < 97 + Len(AsciiFrom97) -> SubSeq(AsciiFrom97, n - 96, n - 96)
      [] OTHER -> "<U+" \o ToString(n) \o ">"

\* chr(int(seq, 16)) of read_str; int raises ValueError for a text that is
\* no hexadecimal number.
ChrOfHex(seq) ==
    IF Len(seq) > 0 /\ \A i \in 0..(Len(seq) - 1) : is_hex_digit(Ch(seq, i))
    THEN Ok(Chr(HexValue(seq, 0, 0)))
    ELSE Raise(ValueError)

StrEscape(pk) ==
    CASE pk = "b" -> "<U+8>"
      [] pk = "f" -> "\f"
      [] pk = "n" -> "\n"
      [] pk = "r" -> "\r"
      [] pk = "t" -> "\t"
      [] pk = "\\" -> "\\"
      [] pk = "$" -> "$"
      [] pk = "\"" -> "\""
      [] OTHER -> None

\* The loop of read_str: r is the text decoded so far.
RECURSIVE ReadStrLoop(_, _, _)
ReadStrLoop(s, i, r) ==
    IF i >= Len(s) THEN Raise(ReadException)
    ELSE LET c == Ch(s, i)
             pk == Ch(s, i + 1)
         IN IF c = "\"" THEN Ok(HStr(r))
            ELSE IF c = "\\" THEN
                IF pk = "u" THEN
                    IF i + 4 >= Len(s) THEN Raise(ReadException)
                    ELSE LET u == ChrOfHex(Slice(s, i + 2, i + 6))
                         IN IF u.err # "" THEN u ELSE ReadStrLoop(s, i + 6, r \o u.val)
                ELSE IF StrEscape(pk) # None THEN ReadStrLoop(s, i + 2, r \o StrEscape(pk))
                ELSE Raise(ReadException)
            ELSE ReadStrLoop(s, i + 1, r \o c)

read_str(s) ==
    IF Len(s) < 2 THEN Raise(ReadException)
    ELSE IF Ch(s, 0) # "\"" THEN Raise(ReadException)
    ELSE ReadStrLoop(s, 1, "")

read_symbol(s) ==
    IF Len(s) < 2 THEN Raise(ReadException)
    ELSE IF ~is_symbol_start(Ch(s, 0)) THEN Raise(ReadException)
    ELSE IF \E i \in 1..(Len(s) - 1) : ~is_symbol_part(Ch(s, i)) THEN Raise(ReadException)
    ELSE Ok(HSymbol(Slice(s, 1, Len(s))))

\* The for loop of read_ref from index i.
RECURSIVE ReadRefLoop(_, _)
ReadRefLoop(s, i) ==
    IF i >= Len(s) THEN Ok(HRef(Slice(s, 1, Len(s)), None))
    ELSE IF is_ref_end(Ch(s, i)) THEN
        IF i + 1 < Len(s) THEN Raise(ReadException)
        ELSE Ok(HRef(Slice(s, 1, Len(s)), None))
    ELSE IF ~is_ref_part(Ch(s, i)) THEN Raise(ReadException)
    ELSE ReadRefLoop(s, i + 1)

read_ref(s) ==
    IF Len(s) < 2 THEN Raise(ReadException)
    ELSE IF ~is_ref_start(Ch(s, 0)) THEN Raise(ReadException)
    ELSE ReadRefLoop(s, 1)

\* The text s with every digit written as "D": the shape the ISO readers of
\* the Python library go by.
RECURSIVE Shape(_, _)
Shape(s, i) ==
    IF i >= Len(s) THEN ""
    ELSE (IF is_digit(Ch(s, i)) THEN "D" ELSE Ch(s, i)) \o Shape(s, i + 1)

Number2(s, i) == 10 * DigitValue(Ch(s, i)) + DigitValue(Ch(s, i + 1))

\* date.fromisoformat accepts YYYY-MM-DD with a month and a day in range
\* (the model takes no day above 31) and raises ValueError for the texts the
\* lexer can give a DATE token that are not of that form.
IsoDateOk(s) ==
    /\ Shape(s, 0) = "DDDD-DD-DD"
    /\ Slice(s, 0, 4) # "0000"
    /\ Number2(s, 5) \in 1..12
    /\ Number2(s, 8) \in 1..31

\* time.fromisoformat on HH:MM:SS with an optional fraction of 3 or 6 digits.
IsoTimeOk(s) ==
    /\ Shape(s, 0) \in {"DD:DD:DD", "DD:DD:DD.DDD", "DD:DD:DD.DDDDDD"}
    /\ Number2(s, 0) \in 0..23
    /\ Number2(s, 3) \in 0..59
    /\ Number2(s, 6) \in 0..59

\* A UTC offset +HH:MM or -HH:MM, or none.
IsoOffsetOk(s) ==
    \/ s = ""
    \/ /\ Shape(s, 0) \in {"+DD:DD", "-DD:DD"}
       /\ Number2(s, 1) \in 0..23
       /\ Number2(s, 4) \in 0..59

\* datetime.fromisoformat on <date>T<time><offset>.
IsoDateTimeOk(s) ==
    /\ Len(s) >= 19
    /\ IsoDateOk(Slice(s, 0, 10))
    /\ Ch(s, 10) = "T"
    /\ \E n \in {19, 23, 26} :
          /\ n <= Len(s)
          /\ IsoTimeOk(Slice(s, 11, n))
          /\ IsoOffsetOk(Slice(s, n, Len(s)))

read_date(s) == IF IsoDateOk(s) THEN Ok(HDate(s)) ELSE Raise(ValueError)

read_time(s) == IF IsoTimeOk(s) THEN Ok(HTime(s)) ELSE Raise(ValueError)

\* s.find(" "): the index of the first space, -1 when there is none.
RECURSIVE Find(_, _, _)
Find(s, c, i) ==
    IF i >= Len(s) THEN -1 ELSE IF Ch(s, i) = c THEN i ELSE Find(s, c, i + 1)

read_date_time(s) ==
    LET idx == Find(s, " ", 0)
        t == IF idx # -1 THEN Slice(s, 0, idx) ELSE s
    IN IF IsoDateTimeOk(t) THEN Ok(HDateTime(t)) ELSE Raise(ValueError)

-----------------------------------------------------------------------------
(* ZincParser (src/zinc/parser.py).  ZincLexer.tokenize is a generator    *)
(* that the parser's context resumes (anext) whenever it needs a token.    *)
(* What the generator yields depends on the characters alone, so the model *)
(* resumes it until it returns or raises, and a parser context c is the    *)
(* number of times the parser has resumed it: cur is the token before the  *)
(* last one pulled, peek the last one pulled, and the exception of the     *)
(* lexer reaches the parser at the pull that finds no token left.  Every   *)
(* operator returns [err, ctx, val].                                       *)

AssembleError == "AssembleError"

\* The outcome of a step of the parser: the exception it raised (err), the
\* context it left (ctx) and the value it returned (val).
Done(c, v) == [err |-> "", ctx |-> c, val |-> v]
Fail(c, kind) == [err |-> kind, ctx |-> c, val |-> NoVal]

\* The outcome v of a reader or of a constructor, met in the context c.
Lift(c, v) == IF v.err # "" THEN Fail(c, v.err) ELSE Done(c, v.val)

\* it is the token generator: the tokens it yields (toks), where each ends in
\* the document (ends), and the exception that ends it (err, "" when it
\* returns).  A context is the number of times it has resumed the generator.
Tok(it, j) == IF j >= 1 /\ j <= Len(it.toks) THEN it.toks[j] ELSE NoToken
Cur(it, c) == Tok(it, c - 1)
Peek(it, c) == Tok(it, c)

\* ZincParser.Context.next: anext(self.it, None) raises what the generator
\* raises, and gives None once the generator has returned.
CtxNext(it, c) ==
    IF c + 1 > Len(it.toks) /\ it.err # "" THEN Fail(c, it.err) ELSE Done(c + 1, None)

\* ZincParser.Context.make
CtxMake(it) == Then(CtxNext(it, 0), LAMBDA r : CtxNext(it, r.ctx))

\* ZincParser.Context.current_is(t)
current_is(it, c, t) == Cur(it, c) # NoToken /\ Cur(it, c).t = t

\* ZincParser.Context.consume_if(t): val is the text consumed, None if none was.
consume_if(it, c, t) ==
    IF Cur(it, c) = NoToken THEN Done(c, None)
    ELSE IF Cur(it, c).t # t THEN Done(c, None)
    ELSE Then(CtxNext(it, c), LAMBDA n : Done(n.ctx, Cur(it, c).s))

\* ZincParser.Context.consume(t, v); v = None stands for no v.
consume(it, c, t, v) ==
    IF Cur(it, c) = NoToken THEN Fail(c, AssembleError)
    ELSE IF Cur(it, c).t # t THEN Fail(c, AssembleError)
    ELSE IF v # None /\ Cur(it, c).s # v THEN Fail(c, AssembleError)
    ELSE Then(CtxNext(it, c), LAMBDA n : Done(n.ctx, Cur(it, c).s))

parse_symbol(it, c) ==
    Then(consume(it, c, "SYMBOL", None), LAMBDA r : Lift(r.ctx, read_symbol(r.val)))
parse_bool(it, c) ==
    Then(consume(it, c, "BOOL", None), LAMBDA r : Lift(r.ctx, read_bool(r.val)))
parse_uri(it, c) ==
    Then(consume(it, c, "URI", None), LAMBDA r : Lift(r.ctx, read_uri(r.val)))
parse_str(it, c) ==
    Then(consume(it, c, "STR", None), LAMBDA r : Lift(r.ctx, read_str(r.val)))
parse_num(it, c) ==
    Then(consume(it, c, "NUMBER", None), LAMBDA r : Lift(r.ctx, read_num(r.val)))
parse_date(it, c) ==
    Then(consume(it, c, "DATE", None), LAMBDA r : Lift(r.ctx, read_date(r.val)))
parse_time(it, c) ==
    Then(consume(it, c, "TIME", None), LAMBDA r : Lift(r.ctx, read_time(r.val)))
parse_date_time(it, c) ==
    Then(consume(it, c, "DATETIME", None), LAMBDA r : Lift(r.ctx, read_date_time(r.val)))

parse_null(it, c) == Then(consume(it, c, "KEYWORD", "N"), LAMBDA r : Done(r.ctx, HNull))
parse_marker(it, c) == Then(consume(it, c, "KEYWORD", "M"), LAMBDA r : Done(r.ctx, HMarker))
parse_remove(it, c) == Then(consume(it, c, "KEYWORD", "R"), LAMBDA r : Done(r.ctx, HRemove))
parse_na(it, c) == Then(consume(it, c, "KEYWORD", "NA"), LAMBDA r : Done(r.ctx, HNa))

parse_ref(it, c) ==
    Then(consume(it, c, "REF", None), LAMBDA r :
    Then(Lift(r.ctx, read_ref(r.val)), LAMBDA ref :
    IF ~current_is(it, ref.ctx, "STR") THEN ref
    ELSE Then(parse_str(it, ref.ctx), LAMBDA name :
         Done(name.ctx, HRef(ref.val.val, name.val)))))

parse_coord(it, c) ==
    Then(consume(it, c, "KEYWORD", "C"), LAMBDA r1 :
    Then(consume(it, r1.ctx, "LPAREN", None), LAMBDA r2 :
    Then(parse_num(it, r2.ctx), LAMBDA lat :
    Then(consume(it, lat.ctx, "COLON", None), LAMBDA r3 :
    Then(parse_num(it, r3.ctx), LAMBDA lon :
    Then(consume(it, lon.ctx, "RPAREN", None), LAMBDA r4 :
    Lift(r4.ctx, HCoord(lat.val.val, lon.val.val))))))))

parse_xstr(it, c) ==
    Then(consume(it, c, "KEYWORD", None), LAMBDA type :
    Then(consume(it, type.ctx, "LPAREN", None), LAMBDA r1 :
    Then(parse_str(it, r1.ctx), LAMBDA data :
    Then(consume(it, data.ctx, "RPAREN", None), LAMBDA r2 :
    Done(r2.ctx, HXstr(type.val, data.val))))))

parse_bin(it, c) ==
    Then(consume(it, c, "KEYWORD", "Bin"), LAMBDA r1 :
    Then(consume(it, r1.ctx, "LPAREN", None), LAMBDA r2 :
    Then(parse_str(it, r2.ctx), LAMBDA mime :
    Then(consume(it, mime.ctx, "RPAREN", None), LAMBDA r3 :
    Done(r3.ctx, HBin(mime.val))))))

\* tags[id_] = val_ on a Python dict, kept as a function from its keys.
DictSet(d, key, v) == [x \in (DOMAIN d) \cup {key} |-> IF x = key THEN v ELSE d[x]]
EmptyDict == [x \in {} |-> NoVal]

\* allow_comma as parse_root and parse_nested_grid pass it for the grid meta.
GridMetaAllowComma == FALSE

RECURSIVE parse_literal(_, _)
RECURSIVE ParseListLoop(_, _, _)
RECURSIVE ParseTagsLoop(_, _, _, _)
RECURSIVE ParseColsLoop(_, _, _)
RECURSIVE ParseRowLoop(_, _, _)
RECURSIVE ParseNestedRows(_, _, _)

\* The loop of parse_list; val is the list so far.
ParseListLoop(it, c, val) ==
    Then(consume_if(it, c, "RBRACKET"), LAMBDA r :
    IF r.val # None THEN Done(r.ctx, HList(val))
    ELSE Then(parse_literal(it, r.ctx), LAMBDA lit :
         Then(consume_if(it, lit.ctx, "COMMA"), LAMBDA k :
         ParseListLoop(it, k.ctx, Append(val, lit.val)))))

parse_list(it, c) ==
    Then(consume(it, c, "LBRACKET", None), LAMBDA r : ParseListLoop(it, r.ctx, <<>>))

\* val is <<id_, val_>>.
parse_tag(it, c) ==
    Then(consume(it, c, "IDENTIFIER", None), LAMBDA id :
    Then(consume_if(it, id.ctx, "COLON"), LAMBDA k :
    IF k.val = None THEN Done(k.ctx, <<id.val, HMarker>>)
    ELSE Then(parse_literal(it, k.ctx), LAMBDA v : Done(v.ctx, <<id.val, v.val>>))))

\* The loop of parse_tags; tags is the dict so far.
ParseTagsLoop(it, c, allow_comma, tags) ==
    IF ~current_is(it, c, "IDENTIFIER") THEN Done(c, tags)
    ELSE Then(parse_tag(it, c), LAMBDA t :
         Then(IF allow_comma THEN consume_if(it, t.ctx, "COMMA") ELSE Done(t.ctx, None),
              LAMBDA k :
         ParseTagsLoop(it, k.ctx, allow_comma, DictSet(tags, t.val[1], t.val[2]))))

parse_tags(it, c, allow_comma) == ParseTagsLoop(it, c, allow_comma, EmptyDict)

parse_dict(it, c) ==
    Then(consume(it, c, "LBRACE", None), LAMBDA r1 :
    Then(parse_tags(it, r1.ctx, TRUE), LAMBDA tags :
    Then(consume(it, tags.ctx, "RBRACE", None), LAMBDA r2 :
    Done(r2.ctx, HDict(tags.val)))))

parse_col(it, c, index) ==
    Then(consume(it, c, "IDENTIFIER", None), LAMBDA name :
    Then(parse_tags(it, name.ctx, FALSE), LAMBDA m :
    Done(m.ctx, HCol(index, name.val, m.val))))

\* A parse_cols that counts its columns from 1.
NextColIndexFromOne(cs) == Len(cs) + 1

\* The index parse_cols gives the column it parses next: len(cols), 0-based.
NextColIndex(cs) == Len(cs)

\* The loop of parse_cols; cs is the list so far.
ParseColsLoop(it, c, cs) ==
    Then(parse_col(it, c, NextColIndex(cs)), LAMBDA col :
    Then(consume_if(it, col.ctx, "COMMA"), LAMBDA k :
    IF k.val # None THEN ParseColsLoop(it, k.ctx, Append(cs, col.val))
    ELSE Then(consume(it, k.ctx, "LINEFEED", None), LAMBDA lf :
         Done(lf.ctx, Append(cs, col.val)))))

parse_cols(it, c) == ParseColsLoop(it, c, <<>>)

\* The variant of ParseRowLoop that adds no cell for a linefeed met where a
\* cell starts.
ParseRowLoopNoNull(it, c, cells) ==
    Then(consume_if(it, c, "LINEFEED"), LAMBDA lf :
    IF lf.val # None THEN Done(lf.ctx, cells)
    ELSE Then(consume_if(it, lf.ctx, "COMMA"), LAMBDA k :
         IF k.val # None THEN ParseRowLoop(it, k.ctx, Append(cells, HNull))
         ELSE Then(parse_literal(it, k.ctx), LAMBDA lit :
              Then(consume_if(it, lit.ctx, "LINEFEED"), LAMBDA lf2 :
              IF lf2.val # None THEN Done(lf2.ctx, Append(cells, lit.val))
              ELSE Then(consume(it, lf2.ctx, "COMMA", None), LAMBDA k2 :
                   ParseRowLoop(it, k2.ctx, Append(cells, lit.val)))))))

\* The variant of ParseRowLoop that takes the end of the tokens after a
\* literal for the end of the row.
ParseRowLoopToEnd(it, c, cells) ==
    Then(consume_if(it, c, "LINEFEED"), LAMBDA lf :
    IF lf.val # None THEN Done(lf.ctx, Append(cells, HNull))
    ELSE Then(consume_if(it, lf.ctx, "COMMA"), LAMBDA k :
         IF k.val # None THEN ParseRowLoop(it, k.ctx, Append(cells, HNull))
         ELSE Then(parse_literal(it, k.ctx), LAMBDA lit :
              Then(consume_if(it, lit.ctx, "LINEFEED"), LAMBDA lf2 :
              IF lf2.val # None \/ Cur(it, lf2.ctx) = NoToken
              THEN Done(lf2.ctx, Append(cells, lit.val))
              ELSE Then(consume(it, lf2.ctx, "COMMA", None), LAMBDA k2 :
                   ParseRowLoop(it, k2.ctx, Append(cells, lit.val)))))))

\* The loop of parse_row; cells is the list so far.
ParseRowLoop(it, c, cells) ==
    Then(consume_if(it, c, "LINEFEED"), LAMBDA lf :
    IF lf.val # None THEN Done(lf.ctx, Append(cells, HNull))
    ELSE Then(consume_if(it, lf.ctx, "COMMA"), LAMBDA k :
         IF k.val # None THEN ParseRowLoop(it, k.ctx, Append(cells, HNull))
         ELSE Then(parse_literal(it, k.ctx), LAMBDA lit :
              Then(consume_if(it, lit.ctx, "LINEFEED"), LAMBDA lf2 :
              IF lf2.val # None THEN Done(lf2.ctx, Append(cells, lit.val))
              ELSE Then(consume(it, lf2.ctx, "COMMA", None), LAMBDA k2 :
                   ParseRowLoop(it, k2.ctx, Append(cells, lit.val)))))))

\* A parse_row that takes a comma before the linefeed as the end of the row
\* and adds no cell for it.
parse_row_no_trailing_cell(it, c) ==
    Then(ParseRowLoop(it, c, <<>>), LAMBDA r :
    IF Len(r.val) = 0 THEN Fail(r.ctx, AssembleError)
    ELSE IF Len(r.val) > 1 /\ r.val[Len(r.val)] = HNull
    THEN Done(r.ctx, HRow(SubSeq(r.val, 1, Len(r.val) - 1)))
    ELSE Done(r.ctx, HRow(r.val)))

parse_row(it, c) ==
    Then(ParseRowLoop(it, c, <<>>), LAMBDA r :
    IF Len(r.val) = 0 THEN Fail(r.ctx, AssembleError) ELSE Done(r.ctx, HRow(r.val)))

parse_grid_ver(it, c) ==
    Then(consume(it, c, "IDENTIFIER", "ver"), LAMBDA r1 :
    Then(consume(it, r1.ctx, "COLON", None), LAMBDA r2 :
    parse_str(it, r2.ctx)))

\* The version parse_root and parse_nested_grid accept.
GridVersion == "3.0"

\* A head that reads the version and does not check it.
ParseGridHeaderAnyVersion(it, c) ==
    Then(parse_grid_ver(it, c), LAMBDA v :
    Then(parse_tags(it, v.ctx, GridMetaAllowComma), LAMBDA m :
    Then(consume(it, m.ctx, "LINEFEED", None), LAMBDA lf :
    Done(lf.ctx, <<v.val.val, m.val>>))))

\* The head of parse_root (lines 298-307) and of parse_nested_grid (lines
\* 322-331): the version, the grid meta, the linefeed, then the check of the
\* version.  val is <<ver_.val, meta_>>.
ParseGridHeader(it, c) ==
    Then(parse_grid_ver(it, c), LAMBDA v :
    Then(parse_tags(it, v.ctx, GridMetaAllowComma), LAMBDA m :
    Then(consume(it, m.ctx, "LINEFEED", None), LAMBDA lf :
    IF v.val.val # GridVersion THEN Fail(lf.ctx, AssembleError)
    ELSE Done(lf.ctx, <<v.val.val, m.val>>))))

\* The loop of parse_nested_grid; rs is the list of rows so far.
ParseNestedRows(it, c, rs) ==
    Then(consume_if(it, c, "GRID_END"), LAMBDA e :
    IF e.val # None THEN Done(e.ctx, rs)
    ELSE Then(parse_row(it, e.ctx), LAMBDA row :
         ParseNestedRows(it, row.ctx, Append(rs, row.val))))

parse_nested_grid(it, c) ==
    Then(consume(it, c, "GRID_START", None), LAMBDA g :
    Then(ParseGridHeader(it, g.ctx), LAMBDA h :
    Then(parse_cols(it, h.ctx), LAMBDA cs :
    Then(ParseNestedRows(it, cs.ctx, <<>>), LAMBDA rs :
    Done(rs.ctx, HGrid(h.val[2], cs.val, rs.val))))))

\* The variant of parse_literal that tells the keywords apart by their
\* lexeme alone, with no lookahead.
parse_literal_by_lexeme(it, c) ==
    IF Cur(it, c) = NoToken THEN Fail(c, ReadException)
    ELSE
    LET t == Cur(it, c).t
        s == Cur(it, c).s
    IN  IF t = "KEYWORD" /\ s = "C" THEN parse_coord(it, c)
        ELSE IF t = "KEYWORD" /\ s = "Bin" THEN parse_bin(it, c)
        ELSE IF t = "LBRACKET" THEN parse_list(it, c)
        ELSE IF t = "LBRACE" THEN parse_dict(it, c)
        ELSE IF t = "GRID_START" THEN parse_nested_grid(it, c)
        ELSE IF t = "REF" THEN parse_ref(it, c)
        ELSE IF t = "SYMBOL" THEN parse_symbol(it, c)
        ELSE IF t = "BOOL" THEN parse_bool(it, c)
        ELSE IF t = "URI" THEN parse_uri(it, c)
        ELSE IF t = "NUMBER" THEN parse_num(it, c)
        ELSE IF t = "STR" THEN parse_str(it, c)
        ELSE IF t = "DATE" THEN parse_date(it, c)
        ELSE IF t = "TIME" THEN parse_time(it, c)
        ELSE IF t = "DATETIME" THEN parse_date_time(it, c)
        ELSE IF t = "KEYWORD" /\ s = "N" THEN parse_null(it, c)
        ELSE IF t = "KEYWORD" /\ s = "M" THEN parse_marker(it, c)
        ELSE IF t = "KEYWORD" /\ s = "R" THEN parse_remove(it, c)
        ELSE IF t = "KEYWORD" /\ s = "NA" THEN parse_na(it, c)
        ELSE IF t = "KEYWORD" THEN parse_xstr(it, c)
        ELSE Fail(c, AssembleError)

\* reader.read_x(await context.consume(t)) in parse_ref, parse_coord,
\* parse_xstr and parse_bin is written as the parse_x that is this expression.
parse_literal(it, c) ==
    IF Cur(it, c) = NoToken THEN Fail(c, ReadException)
    ELSE
    LET t == Cur(it, c).t
        pt == Peek(it, c).t
        s == Cur(it, c).s
    IN  IF t = "KEYWORD" /\ pt = "LPAREN" /\ s = "C" THEN parse_coord(it, c)
        ELSE IF t = "KEYWORD" /\ pt = "LPAREN" /\ s = "Bin" THEN parse_bin(it, c)
        ELSE IF t = "KEYWORD" /\ pt = "LPAREN" THEN parse_xstr(it, c)
        ELSE IF t = "LBRACKET" THEN parse_list(it, c)
        ELSE IF t = "LBRACE" THEN parse_dict(it, c)
        ELSE IF t = "GRID_START" THEN parse_nested_grid(it, c)
        ELSE IF t = "REF" THEN parse_ref(it, c)
        ELSE IF t = "SYMBOL" THEN parse_symbol(it, c)
        ELSE IF t = "BOOL" THEN parse_bool(it, c)
        ELSE IF t = "URI" THEN parse_uri(it, c)
        ELSE IF t = "NUMBER" THEN parse_num(it, c)
        ELSE IF t = "STR" THEN parse_str(it, c)
        ELSE IF t = "DATE" THEN parse_date(it, c)
        ELSE IF t = "TIME" THEN parse_time(it, c)
        ELSE IF t = "DATETIME" THEN parse_date_time(it, c)
        ELSE IF t = "KEYWORD" /\ s = "N" THEN parse_null(it, c)
        ELSE IF t = "KEYWORD" /\ s = "M" THEN parse_marker(it, c)
        ELSE IF t = "KEYWORD" /\ s = "R" THEN parse_remove(it, c)
        ELSE IF t = "KEYWORD" /\ s = "NA" THEN parse_na(it, c)
        ELSE Fail(c, AssembleError)

-----------------------------------------------------------------------------
(* The documents the character source delivers.  A document is a header    *)
(* line, a column line and row lines, each ended by the line separator.    *)

MaxRows == 2

GoodHeader == "ver:\"3.0\""

HeaderLines ==
    {GoodHeader, "ver:\"2.0\"", "ver:\"3.01\"", "ver:\"2.0\" a", "ver:\"2.0\" a,b",
     "ver:\"3.0\" a b:1", "ver:\"3.0\" a,b:1", "ver:\"3.0\" a, b:1", "ver:\"3.0\" b:1 a",
     "ver:\"3.0\" a:T", "ver:\"3.0\" a:", "ver : \"3.0\"", "ver:3.0", "var:\"3.0\"",
     "ver:\"2.0\" a:C(91:-1)", "ver:\"\""}

ColLines == {"x", "x,y", "y u v:2, x"}

NestedGrid(v) == "<<ver:\"" \o v \o "\"\nx\n1\n>>"

CoordLexemes == {"1", "-2", "45.5", "91"}

\* A date-time with offset, alone and followed by a space and a zone name.
IsoDateTime == "2010-03-11T23:55:00-05:00"
ZonedDateTime == IsoDateTime \o " New_York"

CoordCell(lat, lon) == "C(" \o lat \o ":" \o lon \o ")"

\* Rows of one cell that starts as a number: dashes and colons in every count
\* that the classification tells apart, signs, exponents, units, and the
\* characters that end the scan.
NumberLines ==
    {"1-2", "1-2-3-4", "-1-2-3", "-1-2", "1:2", "1:2:3", "1:2:3:4", "1:", "1:2:", "1:a",
     "1-2:3", "1-2-3:4", "1-2-3-4:5", "1:2:3-4", "1e-2", "1e-2-3-4", "1e5-2-3", "1E+2",
     "1e", "1e-", "1+2", "1:2+3", "1.5", "1.", "1.5.5", "5kg", "5_", "5%", "5k5", "1 :2",
     "0x", "0x,1", "0xFF", "0xfg", "0x_1", "0x1_",
     "1" \o At(Latin1From127, 1), "1" \o At(Latin1From127, 2), "1" \o At(Latin1From127, 3),
     "1" \o DegreeSign, "1k" \o At(Latin1From127, 2) \o "k", "1" \o DegreeSign \o "C"}

\* Rows of one string or URI: escapes of the mode's set and of the other's,
\* \u with four hex digits, with fewer and with another character among them,
\* an escaped terminator, a character below 0x20.
TextLines ==
    {"\"a\\nb\"", "\"a\\qb\"", "\"a\\:b\"", "\"a\\u00e9b\"", "\"a\\u00e9\"", "\"a\\u00g9\"",
     "\"a\\u00\"", "\"a\\u00e9f\"", "\"a\\\"b\"", "\"a\tb\"", "\"a\\\\\"", "\"a'b\"",
     "'a\\:b'", "'a\\qb'", "'a\\nb'", "'a\\u00e9b'", "'a\\u0'", "'a\\u00g9'", "'a\\'b'",
     "'a\tb'", "'a\\\\'", "'a\"b'", "'a", "'a\\"}

\* Rows of one cell that starts with a keyword, alone and before a parenthesis.
KeywordLines ==
    {"N", "M", "R", "NA", "X", "Na", "C", "Bin", "N(\"a\")", "NA(\"a\")", "X(\"a\")",
     "Bin(\"a\")", "C(\"a\")", "Bin(1)", "X(1)", "N(", "M (\"a\")", "C(1:-2", "Bin(\"a\"",
     "T(\"a\")"}

\* Rows of one list of numbers: with and without the commas between its
\* elements, before them and after them.
ListLines == {"[]", "[1]", "[1,2]", "[1,2,3]", "[1 2]", "[1,]", "[1,2,]", "[,1]", "[1,,2]",
              "[,]", "[1 2,3]", "[1", "[1,2"}

\* Rows of one ref: alone, before a comma, and followed by a name string
\* with and without a space between the two.
RefLines == {"@r", "@r ", "@r \"n\"", "@r\"n\"", "@a-b.c:d~e_1 \"n\"", "@r ,1", "@r  \"n\""}

RowLines ==
    {"", "1", "1,2", ",", "1,", ",2", "1,,2", ",1,,2,", "\"a,b\",M",
     "T", "F,1", "NaN", "INF", "N,R", "[1,2],3", "{a b:1},@r \"n\"",
     NestedGrid("3.0"), "1," \o NestedGrid("3.0") \o ",2", NestedGrid("2.0"), "1 2",
     "@r,1", "@r n", ZonedDateTime, ZonedDateTime \o ",1", IsoDateTime, "-", "1-2-3",
     "2010-03-11", "23:55:00", "T ", "^", "@", "''", "\"a"}
    \cup {CoordCell(lat, lon) : lat \in CoordLexemes, lon \in CoordLexemes}
    \cup NumberLines \cup TextLines \cup KeywordLines \cup ListLines \cup RefLines

\* The row lines that documents of several rows are made of.
SeqRowLines == {"", "1", "1,2", ",1,,2,", "T", "\"a,b\",M"}

\* The sequences of at most n lines of the set L.
LinesUpTo(L, n) == UNION {[1..k -> L] : k \in 0..n}

RECURSIVE JoinFrom(_, _, _)
JoinFrom(ls, i, nl) == IF i > Len(ls) THEN "" ELSE ls[i] \o nl \o JoinFrom(ls, i + 1, nl)
JoinLines(ls, nl) == JoinFrom(ls, 1, nl)

Document(header, colLine, rowLines, nl) ==
    header \o nl \o colLine \o nl \o JoinLines(rowLines, nl)

\* Documents of every header line, of every column line and row line, of
\* several rows, and of the two line separators; documents of another
\* version; documents cut short before
\* their last linefeed or continued by a character the lexer has no rule for.
HeaderDocs == {Document(h, "x", <<"1">>, "\n") : h \in HeaderLines}
RowDocs == {Document(GoodHeader, c, <<r>>, "\n") : c \in ColLines, r \in RowLines}
BodyDocs ==
    {Document(GoodHeader, c, rs, "\n") : c \in ColLines, rs \in LinesUpTo(SeqRowLines, MaxRows)}
CrlfCols == {"x", "x,y"}
CrlfRows == {<<>>, <<"1">>, <<"1,2">>}
CrlfDocs == {Document(GoodHeader, c, rs, "\r\n") : c \in CrlfCols, rs \in CrlfRows}
VersionDocs ==
    {Document(h, c, <<r>>, "\n") :
        h \in {"ver:\"2.0\"", "ver:\"3.0 \"", "ver:\"3\""}, c \in ColLines,
        r \in {"1", "T", "C(1:-2)", NestedGrid("3.0")}}
CutDocs == {GoodHeader, GoodHeader \o "\nx", GoodHeader \o "\nx\n1", "ver:\"2.0\"\nx#",
            "ver:\"2.0\"\n#", "ver:\"2.0\"\nx\n#", "",
            GoodHeader \o "\nx\n1,", GoodHeader \o "\nx\n[1", GoodHeader \o "\nx\n[1,",
            GoodHeader \o "\nx\n{a:", GoodHeader \o " a:", GoodHeader \o "\nx a:",
            GoodHeader \o "\nx\nC(1:", GoodHeader \o "\nx\n-", "ver:", "ver",
            GoodHeader \o "\nx\n\"a", GoodHeader \o "\nx\n\"a\\", GoodHeader \o "\nx\n\"a\\u00",
            GoodHeader \o "\nx\n'a", GoodHeader \o "\nx\n'a\\", GoodHeader \o "\nx\n'a\\u00e"}

Docs == HeaderDocs \cup RowDocs \cup BodyDocs \cup CrlfDocs \cup VersionDocs \cup CutDocs

-----------------------------------------------------------------------------
(* The pipeline of Client.eval (src/client/client.py lines 60-66) and of    *)
(* main (src/main.py lines 16-23): the lexer context, the token generator,  *)
(* the parser context, parse_root.                                          *)

\* The token generator as the parser's context meets it.
It == [toks |-> yielded, ends |-> yieldedEnd, err |-> lexError]

\* The number of tokens the parser has consumed in the context c: those that
\* have left cur.
Consumed(c) == Min(c - 2, Len(yielded))

\* An exception leaves parse_root: no value is returned.
Raised(r) ==
    /\ ctx' = r.ctx
    /\ pc' = "failed"
    /\ error' = r.err

\* Client.authenticate has not been called: the session of Client.__init__.
AuthIdle ==
    /\ authPc = "idle"
    /\ requests = <<>>
    /\ responses = <<>>
    /\ scram = None
    /\ sessionHeaders = <<>>
    /\ authError = ""

\* No ChunkedIteratorWrapper under observation.
CharIdle ==
    /\ source = <<>>
    /\ buffer = ""
    /\ read = 0
    /\ reads = <<>>

\* No document is being read.
ZincIdle ==
    /\ input = ""
    /\ pc = "idle"
    /\ pos = 0
    /\ yielded = <<>>
    /\ yieldedEnd = <<>>
    /\ lexError = ""
    /\ ctx = 0
    /\ ver = None
    /\ meta = EmptyDict
    /\ cols = <<>>
    /\ rows = <<>>
    /\ colSpan = <<0, 0>>
    /\ rowSpans = <<>>
    /\ result = NoVal
    /\ error = ""

Init ==
    /\ AuthIdle
    /\ CharIdle
    /\ input \in Docs
    /\ pc = "start"
    /\ pos = 0
    /\ yielded = <<>>
    /\ yieldedEnd = <<>>
    /\ lexError = ""
    /\ ctx = 0
    /\ ver = None
    /\ meta = EmptyDict
    /\ cols = <<>>
    /\ rows = <<>>
    /\ colSpan = <<0, 0>>
    /\ rowSpans = <<>>
    /\ result = NoVal
    /\ error = ""

\* ZincLexer.Context.make: current and peek take the first two characters.
LexerContextMake ==
    /\ pc = "start"
    /\ pos' = 1
    /\ pc' = "tokenize"
    /\ UNCHANGED <<input, yielded, yieldedEnd, lexError, ctx, ver, meta, cols, rows,
                   colSpan, rowSpans, result, error>>
    /\ UNCHANGED <<authVars, charVars>>

\* One resumption of the generator ZincLexer.tokenize: it yields a token,
\* returns, or raises.
TokenizeNext ==
    /\ pc = "tokenize"
    /\ \E r \in {tokenize(input, pos)} :
          /\ pos' = r.p
          /\ lexError' = r.err
          /\ IF r.err = "" /\ r.tok # NoToken
             THEN /\ yielded' = Append(yielded, r.tok)
                  /\ yieldedEnd' = Append(yieldedEnd, r.p)
                  /\ UNCHANGED pc
             ELSE /\ pc' = "parser"
                  /\ UNCHANGED <<yielded, yieldedEnd>>
    /\ UNCHANGED <<input, ctx, ver, meta, cols, rows, colSpan, rowSpans, result, error>>
    /\ UNCHANGED <<authVars, charVars>>

\* ZincParser.Context.make: cur and peek take the first two tokens.
ParserContextMake ==
    /\ pc = "parser"
    /\ \E r \in {CtxMake(It)} :
          IF r.err # "" THEN Raised(r)
          ELSE ctx' = r.ctx /\ pc' = "header" /\ UNCHANGED error
    /\ UNCHANGED <<input, pos, yielded, yieldedEnd, lexError, ver, meta, cols, rows,
                   colSpan, rowSpans, result>>
    /\ UNCHANGED <<authVars, charVars>>

\* parse_root, lines 298-307.
ParseRootHeader ==
    /\ pc = "header"
    /\ \E r \in {ParseGridHeader(It, ctx)} :
          IF r.err # "" THEN Raised(r) /\ UNCHANGED <<ver, meta>>
          ELSE /\ ctx' = r.ctx
               /\ ver' = r.val[1]
               /\ meta' = r.val[2]
               /\ pc' = "cols"
               /\ UNCHANGED error
    /\ UNCHANGED <<input, pos, yielded, yieldedEnd, lexError, cols, rows, colSpan,
                   rowSpans, result>>
    /\ UNCHANGED <<authVars, charVars>>

\* parse_root, line 309.
ParseRootCols ==
    /\ pc = "cols"
    /\ \E r \in {parse_cols(It, ctx)} :
          IF r.err # "" THEN Raised(r) /\ UNCHANGED <<cols, colSpan>>
          ELSE /\ ctx' = r.ctx
               /\ cols' = r.val
               /\ colSpan' = <<Consumed(ctx) + 1, Consumed(r.ctx)>>
               /\ pc' = "rows"
               /\ UNCHANGED error
    /\ UNCHANGED <<input, pos, yielded, yieldedEnd, lexError, ver, meta, rows,
                   rowSpans, result>>
    /\ UNCHANGED <<authVars, charVars>>

\* The variant of ParseRootRow whose parse_row leaves the context where it
\* found it.
ParseRootRowInPlace ==
    /\ pc = "rows"
    /\ Cur(It, ctx) # NoToken
    /\ \E r \in {parse_row(It, ctx)} :
          IF r.err # "" THEN Raised(r) /\ UNCHANGED <<rows, rowSpans>>
          ELSE /\ rows' = Append(rows, r.val)
               /\ rowSpans' = Append(rowSpans, <<Consumed(ctx) + 1, Consumed(r.ctx)>>)
               /\ UNCHANGED <<ctx, pc, error>>
    /\ UNCHANGED <<input, pos, yielded, yieldedEnd, lexError, ver, meta, cols,
                   colSpan, result>>
    /\ UNCHANGED <<authVars, charVars>>

\* parse_root, lines 313-314: one iteration of the loop over the rows.
ParseRootRow ==
    /\ pc = "rows"
    /\ Cur(It, ctx) # NoToken
    /\ \E r \in {parse_row(It, ctx)} :
          IF r.err # "" THEN Raised(r) /\ UNCHANGED <<rows, rowSpans>>
          ELSE /\ ctx' = r.ctx
               /\ rows' = Append(rows, r.val)
               /\ rowSpans' = Append(rowSpans, <<Consumed(ctx) + 1, Consumed(r.ctx)>>)
               /\ UNCHANGED <<pc, error>>
    /\ UNCHANGED <<input, pos, yielded, yieldedEnd, lexError, ver, meta, cols,
                   colSpan, result>>
    /\ UNCHANGED <<authVars, charVars>>

\* The variant of ParseRootReturn that returns the grid of the rows read so
\* far, whether or not tokens are left.
ParseRootReturnEarly ==
    /\ pc = "rows"
    /\ rows # <<>>
    /\ result' = HGrid(meta, cols, rows)
    /\ pc' = "done"
    /\ UNCHANGED <<input, pos, yielded, yieldedEnd, lexError, ctx, ver, meta, cols,
                   rows, colSpan, rowSpans, error>>
    /\ UNCHANGED <<authVars, charVars>>

\* parse_root, line 316: the loop ends when cur is None.
ParseRootReturn ==
    /\ pc = "rows"
    /\ Cur(It, ctx) = NoToken
    /\ result' = HGrid(meta, cols, rows)
    /\ pc' = "done"
    /\ UNCHANGED <<input, pos, yielded, yieldedEnd, lexError, ctx, ver, meta, cols,
                   rows, colSpan, rowSpans, error>>
    /\ UNCHANGED <<authVars, charVars>>

Next ==
    \/ LexerContextMake
    \/ TokenizeNext
    \/ ParserContextMake
    \/ ParseRootHeader
    \/ ParseRootCols
    \/ ParseRootRow
    \/ ParseRootReturn

Spec == Init /\ [][Next]_vars

\* The read as the event loop runs it: the coroutine of Client.eval is
\* resumed as long as it has a step to take.
FairSpec == Spec /\ WF_vars(Next)

\* The task that runs Client.eval is cancelled while it awaits a character of
\* the response or a token: CancelledError leaves the pipeline at that pull
\* and nothing is returned.
CancelRead ==
    /\ pc \in {"start", "tokenize", "parser", "header", "cols", "rows"}
    /\ pc' = "cancelled"
    /\ UNCHANGED <<input, pos, yielded, yieldedEnd, lexError, ctx, ver, meta, cols,
                   rows, colSpan, rowSpans, result, error>>
    /\ UNCHANGED <<authVars, charVars>>

CancelNext ==
    \/ LexerContextMake
    \/ TokenizeNext
    \/ ParserContextMake
    \/ ParseRootHeader
    \/ ParseRootCols
    \/ ParseRootRow
    \/ ParseRootReturn
    \/ CancelRead

CancelSpec == Init /\ [][CancelNext]_vars

-----------------------------------------------------------------------------
(* Text operations of Python that the handshake headers go through.        *)

KeyError == "KeyError"
UnicodeDecodeError == "UnicodeDecodeError"
BinasciiError == "binascii.Error"

\* str.lower(), character by character.
LowerChar(c) ==
    IF c \in AlphaHi
    THEN SubSeq("abcdefghijklmnopqrstuvwxyz", IndexOf("ABCDEFGHIJKLMNOPQRSTUVWXYZ", c),
                IndexOf("ABCDEFGHIJKLMNOPQRSTUVWXYZ", c))
    ELSE c

RECURSIVE lower(_)
lower(s) == IF s = "" THEN "" ELSE LowerChar(SubSeq(s, 1, 1)) \o lower(SubSeq(s, 2, Len(s)))

\* str.lstrip(c), str.rstrip(c) and str.strip(c) for one character c.
RECURSIVE lstrip(_, _)
lstrip(s, c) == IF s # "" /\ SubSeq(s, 1, 1) = c THEN lstrip(SubSeq(s, 2, Len(s)), c) ELSE s

RECURSIVE rstrip(_, _)
rstrip(s, c) ==
    IF s # "" /\ SubSeq(s, Len(s), Len(s)) = c THEN rstrip(SubSeq(s, 1, Len(s) - 1), c) ELSE s

strip(s, c) == rstrip(lstrip(s, c), c)

\* The position of the first sep in s at or after position i, 0 when none.
RECURSIVE FindChar(_, _, _)
FindChar(s, sep, i) ==
    IF i > Len(s) THEN 0
    ELSE IF SubSeq(s, i, i) = sep THEN i
    ELSE FindChar(s, sep, i + 1)

\* str.split(sep) for one character sep: the pieces between the seps.
RECURSIVE SplitFrom(_, _, _)
SplitFrom(s, sep, at) ==
    IF at = 0 THEN <<s>>
    ELSE <<SubSeq(s, 1, at - 1)>>
            \o SplitFrom(SubSeq(s, at + 1, Len(s)), sep,
                         FindChar(SubSeq(s, at + 1, Len(s)), sep, 1))

split(s, sep) == SplitFrom(s, sep, FindChar(s, sep, 1))

\* str.split(sep, 1): at most two pieces.
SplitOnce(s, sep, at) ==
    IF at = 0 THEN <<s>> ELSE <<SubSeq(s, 1, at - 1), SubSeq(s, at + 1, Len(s))>>

split_once(s, sep) == SplitOnce(s, sep, FindChar(s, sep, 1))

\* ", ".join(pieces)
RECURSIVE join(_, _)
join(sep, pieces) ==
    IF pieces = <<>> THEN ""
    ELSE IF Len(pieces) = 1 THEN pieces[1]
    ELSE pieces[1] \o sep \o join(sep, Tail(pieces))

\* str.encode(): the UTF-8 bytes of a text of the model, all of one byte.
Encode(s) == [i \in 1..Len(s) |-> Ord(SubSeq(s, i, i))]

\* bytes.decode(): UTF-8 has no one-byte character above 127.
RECURSIVE DecodeFrom(_, _)
DecodeFrom(bytes, i) ==
    IF i > Len(bytes) THEN ""
    ELSE Chr(bytes[i]) \o DecodeFrom(bytes, i + 1)

Decode(bytes) ==
    IF \E i \in 1..Len(bytes) : bytes[i] > 127 THEN Raise(UnicodeDecodeError)
    ELSE Ok(DecodeFrom(bytes, 1))

-----------------------------------------------------------------------------
(* base64 of the standard library, URL-safe alphabet, and                   *)
(* src/helpers/unpadded_base64.py.                                          *)

Base64Alphabet == "ABCDEFGHIJKLMNOPQRSTUVWXYZabcdefghijklmnopqrstuvwxyz0123456789-_"

Base64Char(n) == SubSeq(Base64Alphabet, n + 1, n + 1)

\* urlsafe_b64encode: three bytes give four characters, and the last one or
\* two bytes give two or three characters padded with "=" to four.
RECURSIVE B64EncodeFrom(_, _)
B64EncodeFrom(b, i) ==
    IF i > Len(b) THEN ""
    ELSE IF i = Len(b) THEN
        Base64Char(b[i] \div 4) \o Base64Char((b[i] % 4) * 16) \o "=="
    ELSE IF i + 1 = Len(b) THEN
        Base64Char(b[i] \div 4) \o Base64Char((b[i] % 4) * 16 + b[i + 1] \div 16)
            \o Base64Char((b[i + 1] % 16) * 4) \o "="
    ELSE
        Base64Char(b[i] \div 4) \o Base64Char((b[i] % 4) * 16 + b[i + 1] \div 16)
            \o Base64Char((b[i + 1] % 16) * 4 + b[i + 2] \div 64)
            \o Base64Char(b[i + 2] % 64) \o B64EncodeFrom(b, i + 3)

urlsafe_b64encode(bytes) == B64EncodeFrom(bytes, 1)

\* The characters the decoder reads: those of the URL-safe alphabet and,
\* with the same values as "-" and "_", the "+" and "/" of the standard one.
Base64Chars == {Base64Char(n) : n \in 0..63} \cup {"+", "/"}

Base64Value(c) ==
    IF c = "+" THEN 62 ELSE IF c = "/" THEN 63 ELSE IndexOf(Base64Alphabet, c) - 1

\* The characters of s the decoder reads; it skips any other.
Base64Data(s) == SelectSeq([i \in 1..Len(s) |-> SubSeq(s, i, i)],
                           LAMBDA c : c \in Base64Chars)

\* Where the decoder stops reading s: at the "=" that, with the "=" before
\* it, completes a group of four that holds two or three characters; past
\* the end of s when there is none.
RECURSIVE Base64Stop(_, _, _, _)
Base64Stop(s, i, quad, pads) ==
    IF i > Len(s) THEN i
    ELSE IF SubSeq(s, i, i) = "="
        THEN IF quad < 2 THEN Base64Stop(s, i + 1, quad, pads)
             ELSE IF quad + pads + 1 >= 4 THEN i
             ELSE Base64Stop(s, i + 1, quad, pads + 1)
    ELSE IF SubSeq(s, i, i) \in Base64Chars
        THEN Base64Stop(s, i + 1, (quad + 1) % 4, 0)
    ELSE Base64Stop(s, i + 1, quad, pads)

RECURSIVE B64DecodeFrom(_, _)
B64DecodeFrom(d, i) ==
    IF i > Len(d) THEN <<>>
    ELSE IF i + 1 = Len(d) THEN
        <<Base64Value(d[i]) * 4 + Base64Value(d[i + 1]) \div 16>>
    ELSE IF i + 2 = Len(d) THEN
        <<Base64Value(d[i]) * 4 + Base64Value(d[i + 1]) \div 16,
          (Base64Value(d[i + 1]) % 16) * 16 + Base64Value(d[i + 2]) \div 4>>
    ELSE
        <<Base64Value(d[i]) * 4 + Base64Value(d[i + 1]) \div 16,
          (Base64Value(d[i + 1]) % 16) * 16 + Base64Value(d[i + 2]) \div 4,
          (Base64Value(d[i + 2]) % 4) * 64 + Base64Value(d[i + 3])>>
            \o B64DecodeFrom(d, i + 4)

\* urlsafe_b64decode: binascii.Error unless the characters read make whole
\* groups, the last one with its padding.
B64Decode(s, stop) ==
    IF stop > Len(s) /\ Len(Base64Data(s)) % 4 # 0 THEN Raise(BinasciiError)
    ELSE Ok(B64DecodeFrom(Base64Data(SubSeq(s, 1, stop - 1)), 1))

urlsafe_b64decode(s) == B64Decode(s, Base64Stop(s, 1, 0, 0))

\* unpadded_base64_encode, src/helpers/unpadded_base64.py line 5.
unpadded_base64_encode(decoded) == rstrip(urlsafe_b64encode(Encode(decoded)), "=")

\* The text handed to urlsafe_b64decode for an unpadded value: the value and
\* "=" * (len(value) % 4).
RECURSIVE Repeat(_, _)
Repeat(c, n) == IF n <= 0 THEN "" ELSE c \o Repeat(c, n - 1)

Repadded(encoded) == encoded \o Repeat("=", Len(encoded) % 4)

\* unpadded_base64_decode, src/helpers/unpadded_base64.py line 9, and the
\* same expression of Client.authenticate, lines 156 and 186.
unpadded_base64_decode(encoded) ==
    Then(urlsafe_b64decode(Repadded(encoded)), LAMBDA b : Decode(b.val))

-----------------------------------------------------------------------------
(* The handshake headers: src/auth/headers.                                 *)

\* MessageParameters, a dict of str kept as its items in insertion order.
\* MessageParameters(items), the constructor of dict: the keys as given.
MessageParameters(items) == items

Item(key, value) == [key |-> key, value |-> value]

\* MessageParameters.__setitem__: the key in lower case.
SetItem(d, key, value) ==
    IF \E i \in 1..Len(d) : d[i].key = lower(key)
    THEN [i \in 1..Len(d) |-> IF d[i].key = lower(key) THEN Item(lower(key), value) ELSE d[i]]
    ELSE Append(d, Item(lower(key), value))

\* MessageParameters.__getitem__: the key in lower case, KeyError when absent.
GetItem(d, key) ==
    IF \E i \in 1..Len(d) : d[i].key = lower(key)
    THEN Ok((CHOOSE it \in {d[i] : i \in 1..Len(d)} : it.key = lower(key)).value)
    ELSE Raise(KeyError)

\* MessageParameters.decode: key, value = pair.split("=") raises ValueError
\* unless the pair holds exactly one "=".
RECURSIVE DecodePairs(_, _, _)
DecodePairs(pairs, i, params) ==
    IF i > Len(pairs) THEN Ok(params)
    ELSE IF Len(split(pairs[i], "=")) # 2 THEN Raise(ValueError)
    ELSE DecodePairs(pairs, i + 1,
            SetItem(params, strip(split(pairs[i], "=")[1], " "),
                    strip(split(pairs[i], "=")[2], " ")))

MessageParameters_decode(encoded) == DecodePairs(split(encoded, ","), 1, <<>>)

\* MessageParameters.encode
MessageParameters_encode(d) ==
    join(", ", [i \in 1..Len(d) |-> lower(d[i].key) \o "=" \o d[i].value])

SkysparkAuthHeader(schema, params) == [schema |-> schema, params |-> params]

\* SkysparkAuthHeader.decode: schema, remainder = raw.split(" ", 1)
HeaderOfPieces(pieces) ==
    IF Len(pieces) # 2 THEN Raise(ValueError)
    ELSE Then(MessageParameters_decode(pieces[2]),
              LAMBDA ps : Ok(SkysparkAuthHeader(pieces[1], ps.val)))

SkysparkAuthHeader_decode(raw) == HeaderOfPieces(split_once(raw, " "))

\* SkysparkAuthHeader.encode
SkysparkAuthHeader_encode(h) == h.schema \o " " \o MessageParameters_encode(h.params)

\* SkysparkAuthHeaderFactory
create_hello(username) ==
    SkysparkAuthHeader("hello",
        MessageParameters(<<Item("username", unpadded_base64_encode(username))>>))

create_scram(handshake_token, data) ==
    SkysparkAuthHeader("scram",
        MessageParameters(<<Item("handshakeToken", handshake_token),
                            Item("data", unpadded_base64_encode(data))>>))

create_auth(auth_token) ==
    SkysparkAuthHeader("bearer", MessageParameters(<<Item("authToken", auth_token)>>))

-----------------------------------------------------------------------------
(* scramp.ScramClient as Client.authenticate uses it: the messages of       *)
(* RFC 5802 with the nonces, the proof and the signature taken as given.    *)

ScramException == "ScramException"

ClientNonce == "c"

\* ScramClient(mechanisms, username, password)
ScramClient(mechanisms, username, password) ==
    [mechanisms |-> mechanisms, username |-> username, password |-> password, nonce |-> ""]

\* ScramClient.get_client_first(): the client-first message.
get_client_first(client) == "n,,n=" \o client.username \o ",r=" \o ClientNonce

\* ScramClient.set_server_first(message): ScramException unless the nonce of
\* the server-first message extends the nonce the client sent.
set_server_first(client, message) ==
    IF Len(message) > 2 + Len(ClientNonce)
        /\ SubSeq(message, 1, 2 + Len(ClientNonce)) = "r=" \o ClientNonce
    THEN Ok([client EXCEPT !.nonce = SubSeq(split(message, ",")[1], 3,
                                            Len(split(message, ",")[1]))])
    ELSE Raise(ScramException)

\* ScramClient.get_client_final(): the client-final message.
get_client_final(client) == "c=biws,r=" \o client.nonce \o ",p=" \o client.password

\* ScramClient.set_server_final(message): ScramException unless the message
\* carries the signature of the server that knows the password.
set_server_final(client, message) ==
    IF message = "v=" \o client.password THEN Ok(client) ELSE Raise(ScramException)

-----------------------------------------------------------------------------
(* Client.authenticate, src/client/client.py lines 68-196.                  *)

AuthenticationError == "AuthenticationError"

Project == "demo"

\* Client.api_path and the path of the three requests.
api_path == "/api/" \o Project
AboutPath == api_path \o "/about"

\* session.get(path, headers={"Authorization": authorization})
Get(path, authorization) == [path |-> path, Authorization |-> authorization]

\* A response: its status and its headers, a function of the names present.
Response(status, headers) == [status |-> status, headers |-> headers]
NoHeaders == [n \in {} |-> ""]
Header(name, value) == [n \in {name} |-> value]

\* response.headers.get(name)
HeadersGet(response, name) ==
    IF name \in DOMAIN response.headers THEN response.headers[name] ELSE None

\* response.headers[name]
HeadersItem(response, name) ==
    IF name \in DOMAIN response.headers THEN Ok(response.headers[name]) ELSE Raise(KeyError)

\* The variant of Mechanisms that takes any hash the server names.
MechanismsOfAnyHash(auth_hash_algo) == Ok(<<"SCRAM-" \o auth_hash_algo>>)

\* lines 108-117: the mechanisms for the hash the server names.
Mechanisms(auth_hash_algo) ==
    IF auth_hash_algo = "SHA-256" THEN Ok(<<"SCRAM-SHA-256">>)
    ELSE IF auth_hash_algo = "SHA-512" THEN Ok(<<"SCRAM-SHA-512">>)
    ELSE Raise(AuthenticationError)

\* The locals that a step of authenticate hands to the next.
Locals(handshake_token, scram_client) ==
    [handshake_token |-> handshake_token, scram_client |-> scram_client]

\* lines 83-120: the response to the hello message.
HelloResponse(response, username, password) ==
    IF response.status # 401 THEN Raise(AuthenticationError)
    ELSE IF HeadersGet(response, "WWW-Authenticate") = None THEN Raise(AuthenticationError)
    ELSE
    Then(SkysparkAuthHeader_decode(HeadersGet(response, "WWW-Authenticate")),
         LAMBDA recv_auth_msg :
    IF recv_auth_msg.val.schema # "scram" THEN Raise(AuthenticationError)
    ELSE
    Then(GetItem(recv_auth_msg.val.params, "handshaketoken"), LAMBDA handshake_token :
    Then(GetItem(recv_auth_msg.val.params, "hash"), LAMBDA auth_hash_algo :
    Then(Mechanisms(auth_hash_algo.val), LAMBDA mechanisms :
    Ok(Locals(handshake_token.val,
              ScramClient(mechanisms.val, username, password)))))))

\* lines 134-157: the response to the client-first message.
ClientFirstResponse(response, scram_client) ==
    IF response.status # 401 THEN Raise(AuthenticationError)
    ELSE IF HeadersGet(response, "WWW-Authenticate") = None THEN Raise(AuthenticationError)
    ELSE
    Then(SkysparkAuthHeader_decode(HeadersGet(response, "WWW-Authenticate")),
         LAMBDA recv_auth_msg :
    Then(GetItem(recv_auth_msg.val.params, "handshaketoken"), LAMBDA handshake_token :
    Then(GetItem(recv_auth_msg.val.params, "data"), LAMBDA data :
    Then(unpadded_base64_decode(data.val), LAMBDA server_first :
    Then(set_server_first(scram_client, server_first.val), LAMBDA client :
    Ok(Locals(handshake_token.val, client.val)))))))

\* lines 184-189: ScramException, and no other exception, becomes
\* AuthenticationError.
ServerFinal(scram_client, message) ==
    IF set_server_final(scram_client, message).err = ScramException
    THEN Raise(AuthenticationError)
    ELSE set_server_final(scram_client, message)

\* lines 170-189: the response to the client-final message; the value is
\* auth_token.
ClientFinalResponse(response, scram_client) ==
    IF response.status # 200 THEN Raise(AuthenticationError)
    ELSE
    Then(HeadersItem(response, "Authentication-Info"), LAMBDA authentication_info :
    Then(MessageParameters_decode(authentication_info.val), LAMBDA params :
    Then(GetItem(params.val, "authtoken"), LAMBDA auth_token :
    Then(GetItem(params.val, "data"), LAMBDA data :
    Then(unpadded_base64_decode(data.val), LAMBDA server_final :
    Then(ServerFinal(scram_client, server_final.val), LAMBDA client :
    Ok(auth_token.val)))))))

\* session.headers.add(name, value) of lines 193-196.
HeadersAdd(headers, name, value) == Append(headers, <<name, value>>)

\* The credentials authenticate is called with.
Usernames == {"u", "su"}
Password == "pwd"

\* What the server may answer: the statuses, and for each step the headers
\* of a conformant answer and of answers that deviate from it.
Statuses == {200, 401, 403}

HelloHeaders ==
    {NoHeaders}
        \cup {Header("WWW-Authenticate", v) :
                v \in {"scram handshakeToken=aa, hash=SHA-256",
                       "scram hash=SHA-512,handshakeToken=aa",
                       "scram handshakeToken=aa, hash=SHA-1",
                       "basic realm=x",
                       "scram hash=SHA-256",
                       "scram"}}

ClientFirstHeaders ==
    {NoHeaders}
        \cup {Header("WWW-Authenticate", v) :
                v \in {"scram handshakeToken=bb, data=" \o unpadded_base64_encode("r=cs"),
                       "scram handshakeToken=bb, data=" \o unpadded_base64_encode("r=csn"),
                       "scram handshakeToken=bb, data=" \o unpadded_base64_encode("r=x"),
                       "scram handshakeToken=bb, data=a",
                       "scram handshakeToken=bb"}}

ClientFinalHeaders ==
    {NoHeaders}
        \cup {Header("Authentication-Info", v) :
                v \in {"authToken=tok, data=" \o unpadded_base64_encode("v=" \o Password),
                       "data=" \o unpadded_base64_encode("v=" \o Password) \o ",authToken=Tok2",
                       "authToken=tok, data=" \o unpadded_base64_encode("v=x"),
                       "authToken=tok, data=a",
                       "data=" \o unpadded_base64_encode("v=" \o Password)}}

Responses(headers) == {Response(st, h) : st \in Statuses, h \in headers}

\* An exception leaves authenticate.
AuthRaised(kind) ==
    /\ authPc' = "failed"
    /\ authError' = kind
    /\ UNCHANGED <<requests, scram, sessionHeaders>>

AuthInit ==
    /\ ZincIdle
    /\ CharIdle
    /\ AuthIdle

\* lines 74-82: authenticate is called and issues the hello request.
SendHello ==
    /\ authPc = "idle"
    /\ \E username \in Usernames :
          /\ requests' = <<Get(AboutPath, SkysparkAuthHeader_encode(create_hello(username)))>>
          /\ scram' = [username |-> username, password |-> Password, locals |-> None]
    /\ authPc' = "await_hello"
    /\ UNCHANGED <<responses, sessionHeaders, authError>>
    /\ UNCHANGED <<zincVars, charVars>>

\* lines 83-133: the hello response arrives; the client-first request.
ReceiveHello ==
    /\ authPc = "await_hello"
    /\ \E response \in Responses(HelloHeaders) :
          /\ responses' = Append(responses, response)
          /\ \E r \in {HelloResponse(response, scram.username, scram.password)} :
                IF r.err # "" THEN AuthRaised(r.err)
                ELSE /\ requests' = Append(requests,
                            Get(AboutPath, SkysparkAuthHeader_encode(
                                create_scram(r.val.handshake_token,
                                             get_client_first(r.val.scram_client)))))
                     /\ scram' = [scram EXCEPT !.locals = r.val]
                     /\ authPc' = "await_first"
                     /\ UNCHANGED <<sessionHeaders, authError>>
    /\ UNCHANGED <<zincVars, charVars>>

\* The variant of ReceiveClientFirst that sends the client-final message with
\* the handshake token of the hello response.
ReceiveClientFirstStaleToken ==
    /\ authPc = "await_first"
    /\ \E response \in Responses(ClientFirstHeaders) :
          /\ responses' = Append(responses, response)
          /\ \E r \in {ClientFirstResponse(response, scram.locals.scram_client)} :
                IF r.err # "" THEN AuthRaised(r.err)
                ELSE /\ requests' = Append(requests,
                            Get(AboutPath, SkysparkAuthHeader_encode(
                                create_scram(scram.locals.handshake_token,
                                             get_client_final(r.val.scram_client)))))
                     /\ scram' = [scram EXCEPT !.locals = r.val]
                     /\ authPc' = "await_final"
                     /\ UNCHANGED <<sessionHeaders, authError>>
    /\ UNCHANGED <<zincVars, charVars>>

\* lines 134-169: the response to client-first arrives; the client-final
\* request.
ReceiveClientFirst ==
    /\ authPc = "await_first"
    /\ \E response \in Responses(ClientFirstHeaders) :
          /\ responses' = Append(responses, response)
          /\ \E r \in {ClientFirstResponse(response, scram.locals.scram_client)} :
                IF r.err # "" THEN AuthRaised(r.err)
                ELSE /\ requests' = Append(requests,
                            Get(AboutPath, SkysparkAuthHeader_encode(
                                create_scram(r.val.handshake_token,
                                             get_client_final(r.val.scram_client)))))
                     /\ scram' = [scram EXCEPT !.locals = r.val]
                     /\ authPc' = "await_final"
                     /\ UNCHANGED <<sessionHeaders, authError>>
    /\ UNCHANGED <<zincVars, charVars>>

\* The variant of ReceiveClientFinal that stores a bearer header on any
\* response, whatever its status, its headers and its signature.
ReceiveClientFinalUnchecked ==
    /\ authPc = "await_final"
    /\ \E response \in Responses(ClientFinalHeaders) :
          /\ responses' = Append(responses, response)
          /\ authPc' = "authed"
          /\ sessionHeaders' = HeadersAdd(sessionHeaders, "Authorization",
                  SkysparkAuthHeader_encode(create_auth("tok")))
          /\ UNCHANGED <<requests, scram, authError>>
    /\ UNCHANGED <<zincVars, charVars>>

\* lines 170-196: the response to client-final arrives; the bearer header.
ReceiveClientFinal ==
    /\ authPc = "await_final"
    /\ \E response \in Responses(ClientFinalHeaders) :
          /\ responses' = Append(responses, response)
          /\ \E r \in {ClientFinalResponse(response, scram.locals.scram_client)} :
                IF r.err # "" THEN AuthRaised(r.err)
                ELSE /\ sessionHeaders' = HeadersAdd(sessionHeaders, "Authorization",
                            SkysparkAuthHeader_encode(create_auth(r.val)))
                     /\ authPc' = "authed"
                     /\ UNCHANGED <<requests, scram, authError>>
    /\ UNCHANGED <<zincVars, charVars>>

\* The task that awaits a response is cancelled: CancelledError leaves
\* authenticate at the await.
CancelAuthenticate ==
    /\ authPc \in {"await_hello", "await_first", "await_final"}
    /\ authPc' = "cancelled"
    /\ UNCHANGED <<requests, responses, scram, sessionHeaders, authError>>
    /\ UNCHANGED <<zincVars, charVars>>

AuthNext ==
    \/ SendHello
    \/ ReceiveHello
    \/ ReceiveClientFirst
    \/ ReceiveClientFinal
    \/ CancelAuthenticate

AuthSpec == AuthInit /\ [][AuthNext]_vars

\* The calls of authenticate that one Client takes.
MaxCalls == 2

\* authenticate is called again on the same Client, whose session keeps the
\* headers it holds: lines 74-82 of the new call.
AuthenticateAgain ==
    /\ authPc \in {"authed", "failed", "cancelled"}
    /\ Len(sessionHeaders) < MaxCalls
    /\ \E username \in Usernames :
          /\ requests' = <<Get(AboutPath, SkysparkAuthHeader_encode(create_hello(username)))>>
          /\ scram' = [username |-> username, password |-> Password, locals |-> None]
    /\ responses' = <<>>
    /\ authPc' = "await_hello"
    /\ authError' = ""
    /\ UNCHANGED sessionHeaders
    /\ UNCHANGED <<zincVars, charVars>>

SessionNext ==
    \/ SendHello
    \/ ReceiveHello
    \/ ReceiveClientFirst
    \/ ReceiveClientFinal
    \/ CancelAuthenticate
    \/ AuthenticateAgain

\* One Client over several calls of authenticate.
SessionSpec == AuthInit /\ [][SessionNext]_vars

-----------------------------------------------------------------------------
(* ChunkedIteratorWrapper, src/helpers/chunked_iterator_wrapper.py: the     *)
(* characters of the chunks of its source, one per __anext__.               *)

MaxChunks == 3
MaxReads == 6

\* The chunks a source gives; a source may give an empty one.
Chunks == {"", "a", "bc"}

\* anext(self._source, ""): the next chunk, "" once the source has ended.
NextChunk(src) == IF src = <<>> THEN "" ELSE Head(src)
RestOf(src) == IF src = <<>> THEN <<>> ELSE Tail(src)

\* __len__
__len__(b, r) == Len(b) - r

\* _fetch: the wrapper after it, as the record of its fields.
_fetch(src, b, r) ==
    [source |-> RestOf(src), buffer |-> SubSeq(b, r + 1, Len(b)) \o NextChunk(src), read |-> 0]

\* The variant of Fetched that fetches a chunk at every read.
FetchedAtEveryRead(src, b, r) == _fetch(src, b, r)

\* __anext__ lines 19-20: the wrapper after the fetch it makes on an empty
\* buffer.
Fetched(src, b, r) ==
    IF __len__(b, r) = 0 THEN _fetch(src, b, r)
    ELSE [source |-> src, buffer |-> b, read |-> r]

CharInit ==
    /\ ZincIdle
    /\ AuthIdle
    /\ source \in LinesUpTo(Chunks, MaxChunks)
    /\ buffer = ""
    /\ read = 0
    /\ reads = <<>>

\* __anext__ lines 23-24: the buffer is still empty, StopAsyncIteration; the
\* caller's anext(it, None) gives None.
AnextEnd ==
    /\ Len(reads) < MaxReads
    /\ \E w \in {Fetched(source, buffer, read)} :
          /\ __len__(w.buffer, w.read) = 0
          /\ source' = w.source
          /\ buffer' = w.buffer
          /\ read' = w.read
          /\ reads' = Append(reads, None)
    /\ UNCHANGED <<zincVars, authVars>>

\* __anext__ lines 27-29: the next character of the buffer.
AnextChar ==
    /\ Len(reads) < MaxReads
    /\ \E w \in {Fetched(source, buffer, read)} :
          /\ __len__(w.buffer, w.read) # 0
          /\ source' = w.source
          /\ buffer' = w.buffer
          /\ read' = w.read + 1
          /\ reads' = Append(reads, SubSeq(w.buffer, w.read + 1, w.read + 1))
    /\ UNCHANGED <<zincVars, authVars>>

CharNext ==
    \/ AnextEnd
    \/ AnextChar

CharSpec == CharInit /\ [][CharNext]_vars

-----------------------------------------------------------------------------
(* HZincReader.read_num and ZincParser.parse_coord on their own: read_num   *)
(* is given a text, parse_coord a context over the six tokens of a coord.   *)

\* The texts read_num is given: a sign, digits, decimals, an exponent, a unit
\* and what follows the unit, each present or absent, well formed or not.
NumSigns == {"", "-"}
NumDigits == {"1", "10", "1_0", "1_", "_1", ""}
NumDecimals == {"", ".5", ".", ".5_"}
NumExponents == {"", "e2", "e-2", "E+2", "e", "e+"}
NumUnits == {"", "kg", "%", "m/s", "_", "$"}
NumTails == {"", " ", " x", ":1", "(", "."}
NumTexts ==
    {sg \o d \o f \o x \o u \o t :
        sg \in NumSigns, d \in NumDigits, f \in NumDecimals, x \in NumExponents,
        u \in NumUnits, t \in NumTails}
    \cup {"NaN", "INF", "-INF", "NaNkg", "INF%", "-INF "}

\* The lexemes of the NUMBER tokens of a coord.
CoordTexts == {"0", "90", "-90", "91", "-91", "90.5", "-90.5", "180", "-180", "181",
               "-181", "180.5", "9e1", "45.5kg", "NaN", "INF", "-INF"}

\* The tokens of C(lat:lon).
CoordTokens(lat, lon) ==
    <<ZincToken("KEYWORD", "C"), ZincToken("LPAREN", "("), ZincToken("NUMBER", lat),
      ZincToken("COLON", ":"), ZincToken("NUMBER", lon), ZincToken("RPAREN", ")")>>

ReaderInit ==
    /\ AuthIdle
    /\ CharIdle
    /\ \/ /\ pc = "read_num"
          /\ input \in NumTexts
          /\ yielded = <<>>
       \/ /\ pc = "parse_coord"
          /\ input = ""
          /\ yielded \in {CoordTokens(lat, lon) : lat \in CoordTexts, lon \in CoordTexts}
    /\ pos = 0
    /\ yieldedEnd = [i \in 1..Len(yielded) |-> 0]
    /\ lexError = ""
    /\ ctx = 0
    /\ ver = None
    /\ meta = EmptyDict
    /\ cols = <<>>
    /\ rows = <<>>
    /\ colSpan = <<0, 0>>
    /\ rowSpans = <<>>
    /\ result = NoVal
    /\ error = ""

\* The call returns the value r.val or raises the exception r.err.
Returns(r) ==
    IF r.err = ""
    THEN result' = r.val /\ pc' = "returned" /\ UNCHANGED error
    ELSE error' = r.err /\ pc' = "raised" /\ UNCHANGED result

\* HZincReader().read_num(input)
ReadNum ==
    /\ pc = "read_num"
    /\ Returns(read_num(input))
    /\ UNCHANGED <<input, pos, yielded, yieldedEnd, lexError, ctx, ver, meta, cols, rows,
                   colSpan, rowSpans>>
    /\ UNCHANGED <<authVars, charVars>>

\* ZincParser.parse_coord(await ZincParser.Context.make(it), HZincReader())
ParseCoord ==
    /\ pc = "parse_coord"
    /\ \E r \in {Then(CtxMake(It), LAMBDA m : parse_coord(It, m.ctx))} :
          /\ ctx' = r.ctx
          /\ Returns(r)
    /\ UNCHANGED <<input, pos, yielded, yieldedEnd, lexError, ver, meta, cols, rows,
                   colSpan, rowSpans>>
    /\ UNCHANGED <<authVars, charVars>>

ReaderNext ==
    \/ ReadNum
    \/ ParseCoord

ReaderSpec == ReaderInit /\ [][ReaderNext]_vars

-----------------------------------------------------------------------------
(* ZincLexer.Context over a ChunkedIteratorWrapper: the characters the      *)
(* lexer pulls from the wrapper as it consumes them.  reads holds what the  *)
(* pulls gave, pos counts the characters consumed.                          *)

\* anext(it, None) on the wrapper: the wrapper after __anext__ and the
\* character it gave, None for StopAsyncIteration.
Anext(src, b, r) ==
    LET w == Fetched(src, b, r)
    IN  IF __len__(w.buffer, w.read) = 0
        THEN [source |-> w.source, buffer |-> w.buffer, read |-> w.read, c |-> None]
        ELSE [source |-> w.source, buffer |-> w.buffer, read |-> w.read + 1,
              c |-> SubSeq(w.buffer, w.read + 1, w.read + 1)]

\* One pull of the context from the wrapper.
Pull ==
    \E a \in {Anext(source, buffer, read)} :
        /\ source' = a.source
        /\ buffer' = a.buffer
        /\ read' = a.read
        /\ reads' = Append(reads, a.c)

\* current and peek of the context: the last two pulls.
StreamCurrent == reads[Len(reads) - 1]
StreamPeek == reads[Len(reads)]

StreamInit ==
    /\ AuthIdle
    /\ input = ""
    /\ pc = "make_current"
    /\ pos = 0
    /\ yielded = <<>>
    /\ yieldedEnd = <<>>
    /\ lexError = ""
    /\ ctx = 0
    /\ ver = None
    /\ meta = EmptyDict
    /\ cols = <<>>
    /\ rows = <<>>
    /\ colSpan = <<0, 0>>
    /\ rowSpans = <<>>
    /\ result = NoVal
    /\ error = ""
    /\ source \in LinesUpTo(Chunks, MaxChunks)
    /\ buffer = ""
    /\ read = 0
    /\ reads = <<>>

\* Context.make line 42: current.
StreamMakeCurrent ==
    /\ pc = "make_current"
    /\ Pull
    /\ pc' = "make_peek"
    /\ UNCHANGED <<input, pos, yielded, yieldedEnd, lexError, ctx, ver, meta, cols, rows,
                   colSpan, rowSpans, result, error>>
    /\ UNCHANGED authVars

\* Context.make line 43: peek.
StreamMakePeek ==
    /\ pc = "make_peek"
    /\ Pull
    /\ pc' = "lexing"
    /\ UNCHANGED <<input, pos, yielded, yieldedEnd, lexError, ctx, ver, meta, cols, rows,
                   colSpan, rowSpans, result, error>>
    /\ UNCHANGED authVars

\* consume and consume_if on a current character: the character is consumed
\* and next() pulls the new peek.
StreamConsume ==
    /\ pc = "lexing"
    /\ StreamCurrent # None
    /\ Len(reads) < MaxReads
    /\ Pull
    /\ pos' = pos + 1
    /\ UNCHANGED <<input, pc, yielded, yieldedEnd, lexError, ctx, ver, meta, cols, rows,
                   colSpan, rowSpans, result, error>>
    /\ UNCHANGED authVars

\* tokenize line 239: current is None, the loop is left.
StreamEnd ==
    /\ pc = "lexing"
    /\ StreamCurrent = None
    /\ pc' = "ended"
    /\ UNCHANGED <<input, pos, yielded, yieldedEnd, lexError, ctx, ver, meta, cols, rows,
                   colSpan, rowSpans, result, error>>
    /\ UNCHANGED <<authVars, charVars>>

StreamNext ==
    \/ StreamMakeCurrent
    \/ StreamMakePeek
    \/ StreamConsume
    \/ StreamEnd

StreamSpec == StreamInit /\ [][StreamNext]_vars

-----------------------------------------------------------------------------
(* Equality of Num values (src/ztypes.py, HNum) and the assertions of      *)
(* tests/ztypes_tests.py that compare a read Num with an expected one.     *)
(* input is the text read, result the Num that read_num returned, and rows *)
(* holds the one expected Num, the operand on the right of ==.             *)

\* HNum.make(val, unit): the class instances when unit is None, HNum(val, unit)
\* otherwise.  An instance is a Num whose value is 0, NaN or an infinity and
\* whose unit is None.
HNum_make(val, unit) == HNum(val, unit)

\* x == y on floats: false when either is NaN.
FloatEq(x, y) == x.sp # "NaN" /\ y.sp # "NaN" /\ x = y

\* self is other, for self returned by read_num and other by HNum.make:
\* read_num returns HNum.NaN, HNum.POS_INF and HNum.NEG_INF themselves and a
\* new HNum for every other text.
SameInstance(self, other) == self = other /\ self.unit = None /\ self.val.sp # ""

\* HNum.__eq__(self, other)
HNum__eq__(self, other) ==
    IF SameInstance(self, other) THEN TRUE
    ELSE IF other.k = "Num" THEN FloatEq(self.val, other.val) ELSE FALSE

\* The texts read, the values and the units of the expected Num values.
EqualTexts == {"0", "1", "1kg", "1m", "2kg", "1.5kg", "0kg", "1E-2kW", "10e-3kW",
               "NaN", "INF", "-INF", "kg"}
EqualVals == {Normal(0, 0), Normal(1, 0), Normal(2, 0), Normal(15, -1), Normal(1, -2),
              FloatNaN, FloatPosInf, FloatNegInf}
EqualUnits == {None, "kg", "m", "kW"}

EqualInit ==
    /\ AuthIdle
    /\ CharIdle
    /\ pc = "read_num"
    /\ input \in EqualTexts
    /\ rows \in {<<HNum_make(v, u).val>> : v \in EqualVals, u \in EqualUnits}
    /\ yielded = <<>>
    /\ pos = 0
    /\ yieldedEnd = <<>>
    /\ lexError = ""
    /\ ctx = 0
    /\ ver = None
    /\ meta = EmptyDict
    /\ cols = <<>>
    /\ colSpan = <<0, 0>>
    /\ rowSpans = <<>>
    /\ result = NoVal
    /\ error = ""

\* self.r.read_num(input), the first argument of assertEqual.
EqualRead ==
    /\ pc = "read_num"
    /\ LET r == read_num(input)
       IN IF r.err = ""
          THEN result' = r.val /\ pc' = "assertEqual" /\ UNCHANGED error
          ELSE error' = r.err /\ pc' = "raised" /\ UNCHANGED result
    /\ UNCHANGED <<input, pos, yielded, yieldedEnd, lexError, ctx, ver, meta, cols, rows,
                   colSpan, rowSpans>>
    /\ UNCHANGED <<authVars, charVars>>

\* assertEqual(first, second) passes when first == second and fails otherwise.
AssertEqual ==
    /\ pc = "assertEqual"
    /\ pc' = IF HNum__eq__(result, rows[1]) THEN "passed" ELSE "AssertionError"
    /\ UNCHANGED <<input, pos, yielded, yieldedEnd, lexError, ctx, ver, meta, cols, rows,
                   colSpan, rowSpans, result, error>>
    /\ UNCHANGED <<authVars, charVars>>

EqualNext ==
    \/ EqualRead
    \/ AssertEqual

EqualSpec == EqualInit /\ [][EqualNext]_vars

-----------------------------------------------------------------------------
(* Properties.  A line of the document is read off the tokens the parser    *)
(* consumed for it: the commas that separate its positions are those        *)
(* outside every bracket.                                                   *)

Kinds(toks) == [i \in 1..Len(toks) |-> toks[i].t]

Opening == {"LPAREN", "LBRACKET", "LBRACE"}
Closing == {"RPAREN", "RBRACKET", "RBRACE"}

\* How many brackets are open before the i-th token of toks.
DepthAt(toks, i) ==
    Cardinality({j \in 1..(i - 1) : toks[j].t \in Opening})
        - Cardinality({j \in 1..(i - 1) : toks[j].t \in Closing})

TopCommas(toks) == {i \in 1..Len(toks) : toks[i].t = "COMMA" /\ DepthAt(toks, i) = 0}

\* The index of the j-th separating comma; 0 before the first position and
\* Len(toks) + 1 after the last.
CommaAt(toks, j) ==
    IF j = 0 THEN 0
    ELSE IF j > Cardinality(TopCommas(toks)) THEN Len(toks) + 1
    ELSE CHOOSE i \in TopCommas(toks) : Cardinality({x \in TopCommas(toks) : x < i}) = j - 1

\* The tokens of the j-th comma-separated position of a line.
Position(toks, j) == SubSeq(toks, CommaAt(toks, j - 1) + 1, CommaAt(toks, j) - 1)

\* A generator that yields toks and returns, and the context made on it.
Yielding(toks) == [toks |-> toks, ends |-> <<>>, err |-> ""]
Made(toks) == CtxMake(Yielding(toks)).ctx

\* The outcome r of a parse of toks: it read all of them and returned v.
Reads(r, toks, v) == r.err = "" /\ Cur(Yielding(toks), r.ctx) = NoToken /\ r.val = v

\* The tokens yielded[a..b] with a..b a span of the root grid.
Span(sp) == SubSeq(yielded, sp[1], sp[2])
Line(sp) == SubSeq(yielded, sp[1], sp[2] - 1)

Returned == pc = "done"
Ended == pc \in {"done", "failed"}
Tokenized == pc \notin {"start", "tokenize"}

\* C1: every Grid that parse_root returns has, in each of its rows, as many
\* cells as the grid has columns.
C1_RowLenIsColsLen ==
    Returned => \A i \in 1..Len(result.rows) : Len(result.rows[i]) = Len(result.cols)

\* C2: parse_row yields one cell for each comma-separated position of the row
\* line, k + 1 cells for k commas before the LINEFEED, in the order of the
\* line: Null for a position that holds no literal, and for any other the
\* literal parse_literal reads from it.
C2_CellPerPosition ==
    \A i \in 1..Len(rows) :
        /\ yielded[rowSpans[i][2]].t = "LINEFEED"
        /\ Len(rows[i]) = Cardinality(TopCommas(Line(rowSpans[i]))) + 1
        /\ \A j \in 1..Len(rows[i]) :
              \E cell \in {Position(Line(rowSpans[i]), j)} :
                  IF cell = <<>> THEN rows[i][j] = HNull
                  ELSE Reads(parse_literal(Yielding(cell), Made(cell)), cell, rows[i][j])

\* C2, its case: a returned row of five positions of which the first, the
\* third and the last hold no literal, next to a row that is a lone linefeed.
C2_Witness ==
    /\ Returned
    /\ \E i \in 1..Len(rows) :
          /\ Len(rows[i]) = 5
          /\ rows[i][1] = HNull /\ rows[i][3] = HNull /\ rows[i][5] = HNull
          /\ rows[i][2] # HNull /\ rows[i][4] # HNull /\ rows[i][2] # rows[i][4]
    /\ \E i \in 1..Len(rows) : rows[i] = <<HNull>> /\ rowSpans[i][1] = rowSpans[i][2]

\* C3: a keyword lexeme NaN or INF is yielded as a NUMBER token and T or F as
\* a BOOL token, so that a row cell T or F parses to Bool and a row cell NaN
\* or INF to Num.
C3_KeywordPostProcessed ==
    /\ \A i \in 1..Len(yielded) :
          /\ yielded[i].s \in {"NaN", "INF"} => yielded[i].t = "NUMBER"
          /\ yielded[i].s \in {"T", "F"} => yielded[i].t = "BOOL"
    /\ \A c \in ColLines :
          /\ Ended /\ input = Document(GoodHeader, c, <<"T">>, "\n")
                => Returned /\ rows = <<HRow(<<HBool(TRUE)>>)>>
          /\ Ended /\ input = Document(GoodHeader, c, <<"NaN">>, "\n")
                => Returned /\ rows = <<HRow(<<HNum(FloatNaN, None).val>>)>>
          /\ Ended /\ input = Document(GoodHeader, c, <<"INF">>, "\n")
                => Returned /\ rows = <<HRow(<<HNum(FloatPosInf, None).val>>)>>

\* C4: the digraph ">>" is yielded as a GRID_END token, and GRID_START is the
\* type of "<<" alone.
C4_GridEndDigraph ==
    \A i \in 1..Len(yielded) :
        /\ yielded[i].s = ">>" => yielded[i].t = "GRID_END"
        /\ yielded[i].t = "GRID_START" => yielded[i].s = "<<"

\* C5: a row cell << ver:"3.0" LINEFEED column line, row lines >> is parsed
\* into a Grid stored as that cell; parse_nested_grid stops at the closing >>
\* and the enclosing row goes on after it.
C5_NestedGridCell ==
    \A c \in ColLines :
        /\ Ended /\ input = Document(GoodHeader, c, <<NestedGrid("3.0")>>, "\n")
              => /\ Returned
                 /\ Len(rows) = 1 /\ Len(rows[1]) = 1
                 /\ rows[1][1].k = "Grid" /\ Len(rows[1][1].rows) = 1
        /\ Ended /\ input = Document(GoodHeader, c, <<"1," \o NestedGrid("3.0") \o ",2">>, "\n")
              => /\ Returned
                 /\ Len(rows) = 1 /\ Len(rows[1]) = 3
                 /\ rows[1][2].k = "Grid"
                 /\ rows[1][3] = read_num("2").val

\* C6: "\r\n" is yielded as one LINEFEED token: a document whose lines end in
\* \r\n yields the token kinds of the same document with lines ending in \n.
C6_CrlfOneLinefeed ==
    \A c \in CrlfCols, rs \in CrlfRows :
        Tokenized /\ input = Document(GoodHeader, c, rs, "\r\n")
            => /\ lexError = ""
               /\ Kinds(yielded) = Kinds(Tokens(Document(GoodHeader, c, rs, "\n")).toks)

NumOf(lexeme) == read_num(lexeme).val.val

\* C7: for NUMBER lexemes lat and lon in range, C(lat:lon) is tokenized as
\* KEYWORD LPAREN NUMBER COLON NUMBER RPAREN and parse_literal returns
\* Coord(lat, lon), also when lon starts with a digit.
C7_CoordLiteral ==
    \A lat \in CoordLexemes, lon \in CoordLexemes :
        HCoord(NumOf(lat), NumOf(lon)).err = ""
        /\ Tokenized /\ input = Document(GoodHeader, "x", <<CoordCell(lat, lon)>>, "\n")
            => /\ Kinds(yielded) =
                    Kinds(Tokens(Document(GoodHeader, "x", <<>>, "\n")).toks)
                        \o <<"KEYWORD", "LPAREN", "NUMBER", "COLON", "NUMBER", "RPAREN",
                             "LINEFEED">>
               /\ Ended => Returned /\ rows = <<HRow(<<HCoord(NumOf(lat), NumOf(lon)).val>>)>>

\* C8: parse_root accepts the grid-meta tags of the header line with commas
\* between them as it does without, and returns the same meta for both.
C8_MetaCommas ==
    \A h \in {"ver:\"3.0\" a b:1", "ver:\"3.0\" a,b:1", "ver:\"3.0\" a, b:1"} :
        Ended /\ input = Document(h, "x", <<"1">>, "\n")
            => /\ Returned
               /\ result.meta = DictSet(DictSet(EmptyDict, "a", HMarker), "b", read_num("1").val)

\* C9: in the Grid parse_root returns, the i-th column (counted from 0) has
\* index i and the name at the i-th position of the column line, and the
\* i-th row is the row of the i-th row line of the input.
C9_ColsAndRowsInOrder ==
    Returned =>
        /\ Len(result.cols) = Cardinality(TopCommas(Line(colSpan))) + 1
        /\ \A i \in 1..Len(result.cols) :
              /\ result.cols[i].index = i - 1
              /\ result.cols[i].name = Position(Line(colSpan), i)[1].s
        /\ Len(result.rows) = Len(rowSpans)
        /\ \A i \in 1..Len(rowSpans) :
              /\ rowSpans[i][1] = (IF i = 1 THEN colSpan[2] ELSE rowSpans[i - 1][2]) + 1
              /\ rowSpans[i][1] <= rowSpans[i][2]
              /\ Reads(parse_row(Yielding(Span(rowSpans[i])), Made(Span(rowSpans[i]))),
                       Span(rowSpans[i]), result.rows[i])
        /\ Len(yielded) = (IF rowSpans = <<>> THEN colSpan[2] ELSE rowSpans[Len(rowSpans)][2])

\* C9, its case: a returned grid of several columns and of several rows that
\* differ.
C9_Witness ==
    /\ Returned
    /\ Len(result.cols) > 1
    /\ Len(result.rows) > 1
    /\ result.rows[1] # result.rows[2]
    /\ result.cols[2].name # result.cols[1].name

\* The i-th token yielded opens a grid head whose version is not "3.0".
BadVersionAt(i) ==
    /\ i + 2 <= Len(yielded)
    /\ yielded[i] = ZincToken("IDENTIFIER", "ver")
    /\ yielded[i + 1].t = "COLON"
    /\ yielded[i + 2].t = "STR"
    /\ read_str(yielded[i + 2].s) # Ok(HStr(GridVersion))

\* The lexer yields the header line ver:STR LINEFEED and lets the parser look
\* two tokens ahead of it.
HeaderLineYielded ==
    /\ Len(yielded) > 3
    /\ yielded[4].t = "LINEFEED"
    /\ Len(yielded) > 5 \/ lexError = ""

\* The tokens toks of a nested grid as parse_nested_grid expects them: with
\* the closing digraph as a GRID_END token.
Closed(toks) ==
    [j \in 1..Len(toks) |->
        IF toks[j].s = ">>" THEN ZincToken("GRID_END", ">>") ELSE toks[j]]

Insert(s, p, w) == SubSeq(s, 1, p - 1) \o w \o SubSeq(s, p, Len(s))

\* C11: tokenize is whitespace-oblivious: with a whitespace character put
\* in between two tokens of the input, at the end of any token, it yields the
\* same tokens, kinds and texts; a space after a ref is no part of the REF.
C11_WhitespaceOblivious ==
    pc = "parser" /\ lexError = "" =>
        \A k \in 1..Len(yielded), w \in {" ", "\t"} :
            \E r \in {Tokens(Insert(input, yieldedEnd[k], w))} :
                r.err = "" /\ r.toks = yielded

\* C12: a row cell that is an ISO date-time with offset, a space and a zone
\* name is read as one DateTime cell, the instant of the ISO prefix: the zone
\* name gives no token of its own and no error.
C12_ZonedDateTimeCell ==
    Ended /\ input = Document(GoodHeader, "x", <<ZonedDateTime>>, "\n") =>
        /\ Returned
        /\ rows = <<HRow(<<read_date_time(IsoDateTime).val>>)>>
        /\ \A i \in 1..Len(yielded) : yielded[i].s # "New"

-----------------------------------------------------------------------------
(* Properties of Client.authenticate.  The k-th response is judged here    *)
(* from its status and the text of its header, as the server sent them.    *)

\* The header the k-th step of the handshake reads.
StepHeader(k) == IF k = 3 THEN "Authentication-Info" ELSE "WWW-Authenticate"
StepStatus(k) == IF k = 3 THEN 200 ELSE 401

HeaderText(k) == responses[k].headers[StepHeader(k)]
HasHeader(k) == StepHeader(k) \in DOMAIN responses[k].headers

\* The parameters of the header of the k-th response.
ParamsText(k) == IF k = 3 THEN HeaderText(k) ELSE split_once(HeaderText(k), " ")[2]
Scheme(k) == split_once(HeaderText(k), " ")[1]
WellFormed(k) ==
    /\ HasHeader(k)
    /\ k < 3 => Len(split_once(HeaderText(k), " ")) = 2
    /\ MessageParameters_decode(ParamsText(k)).err = ""
HasParam(k, name) ==
    WellFormed(k) /\ GetItem(MessageParameters_decode(ParamsText(k)).val, name).err = ""
Param(k, name) == GetItem(MessageParameters_decode(ParamsText(k)).val, name).val

\* The k-th response has the expected status and header and, at the first
\* step, names the scheme scram and a hash that is supported.
Conformant(k) ==
    /\ responses[k].status = StepStatus(k)
    /\ HasHeader(k)
    /\ k = 1 => /\ WellFormed(k) /\ Scheme(k) = "scram"
                /\ HasParam(k, "hash") /\ Param(k, "hash") \in {"SHA-256", "SHA-512"}

\* The server-final message of the third response does not carry the
\* signature the client expects.
BadSignature(k) ==
    /\ k = 3 /\ HasParam(k, "authToken") /\ HasParam(k, "data")
    /\ unpadded_base64_decode(Param(k, "data")).err = ""
    /\ unpadded_base64_decode(Param(k, "data")).val # "v=" \o scram.password

\* The deviations of the k-th response from the handshake: an unexpected
\* status, a missing header, an unsupported scheme, an unsupported hash, a
\* failed SCRAM verification.
Deviation(k) ==
    \/ responses[k].status # StepStatus(k)
    \/ ~HasHeader(k)
    \/ k = 1 /\ WellFormed(k) /\ Scheme(k) # "scram"
    \/ k = 1 /\ HasParam(k, "handshakeToken") /\ HasParam(k, "hash")
             /\ Param(k, "hash") \notin {"SHA-256", "SHA-512"}
    \/ BadSignature(k)

\* C13: every deviation from the handshake, an unexpected status, a missing
\* WWW-Authenticate or Authentication-Info header, an unsupported scheme or
\* hash, a failed SCRAM verification, leaves authenticate as
\* Client.AuthenticationError and as no other exception.
C13_DeviationIsAuthenticationError ==
    responses # <<>> /\ Deviation(Len(responses)) =>
        authPc = "failed" /\ authError = AuthenticationError

\* C14: the session holds the bearer Authorization header only once the
\* third response had status 200 and its server-final message passed the
\* SCRAM check; while the handshake is under way, and after it failed or was
\* cancelled at an await, the headers of the session are those it began with.
C14_BearerOnlyAfterFinalCheck ==
    /\ authPc # "authed" => sessionHeaders = <<>>
    /\ authPc = "authed" =>
          /\ Len(responses) = 3
          /\ responses[3].status = 200
          /\ HasParam(3, "data")
          /\ unpadded_base64_decode(Param(3, "data")) = Ok("v=" \o scram.password)
          /\ Len(sessionHeaders) = 1
          /\ sessionHeaders[1][1] = "Authorization"

\* C14, its case: the handshake has gone through and the header is stored.
C14_Witness ==
    /\ authPc = "authed"
    /\ Len(responses) = 3
    /\ sessionHeaders # <<>>

\* The client-first and client-final messages of the client.
ClientFirstText == "n,,n=" \o scram.username \o ",r=" \o ClientNonce
IsClientFinalText(t) == Len(t) > 1 /\ SubSeq(t, 1, 2) = "c="

\* The scram request of the k-th step carries the handshake token of the
\* response before it.
ScramRequest(k, data) ==
    requests[k].Authorization =
        "scram handshaketoken=" \o Param(k - 1, "handshakeToken") \o ", data=" \o data

\* C15: authenticate issues at most three GETs to /api/<project>/about, in
\* the order hello, scram with client-first, scram with client-final, three
\* when all responses conform; the request k+1 is issued only after the
\* response k was received and passed its checks, so no request follows a
\* rejected response.
C15_ThreeRequestsInOrder ==
    /\ Len(requests) <= 3
    /\ Len(requests) <= Len(responses) + 1
    /\ \A k \in 1..Len(requests) : requests[k].path = "/api/" \o Project \o "/about"
    /\ \A k \in 1..Len(responses) :
          /\ k < Len(requests) => Conformant(k)
          /\ ~Conformant(k) => Len(responses) = k /\ Len(requests) = k /\ authPc = "failed"
    /\ Len(requests) >= 1 =>
          requests[1].Authorization =
              "hello username=" \o unpadded_base64_encode(scram.username)
    /\ Len(requests) >= 2 => ScramRequest(2, unpadded_base64_encode(ClientFirstText))
    /\ Len(requests) >= 3 =>
          \E t \in {unpadded_base64_decode(
                        GetItem(MessageParameters_decode(
                            split_once(requests[3].Authorization, " ")[2]).val, "data").val)} :
              /\ t.err = "" /\ IsClientFinalText(t.val)
              /\ ScramRequest(3, unpadded_base64_encode(t.val))
    /\ authPc = "authed" => Len(requests) = 3 /\ Len(responses) = 3

\* C15, its case: three conformant responses and the three requests.
C15_Witness ==
    /\ authPc = "authed"
    /\ Len(requests) = 3
    /\ \A k \in 1..3 : Conformant(k)

\* C16: after a successful authenticate the header value the session holds
\* is exactly "bearer authToken=<token>", with the authToken parameter of
\* the Authentication-Info header of the final response.
C16_BearerHeaderValue ==
    authPc = "authed" =>
        sessionHeaders = <<<<"Authorization", "bearer authToken=" \o Param(3, "authToken")>>>>

\* C17: for every unpadded base64 value that a step of the handshake takes
\* from a header and decodes, the text handed to the decoder, the value
\* with its padding re-added, has a length that is a multiple of four.
C17_RepaddedToMultipleOfFour ==
    \A k \in 2..Len(responses) :
        responses[k].status = StepStatus(k) /\ HasParam(k, "data")
        /\ (IF k = 3 THEN HasParam(k, "authToken") ELSE HasParam(k, "handshakeToken"))
            => Len(Repadded(Param(k, "data"))) % 4 = 0

-----------------------------------------------------------------------------
(* Properties of ChunkedIteratorWrapper. *)

\* C18: once a read of the wrapper has signalled the end of the stream,
\* every later read signals it too and gives no character, whatever chunks
\* the source gives, an empty chunk before further chunks included.
C18_EndIsFinal ==
    \A i \in 1..Len(reads), j \in 1..Len(reads) :
        i < j /\ reads[i] = None => reads[j] = None

-----------------------------------------------------------------------------
(* Properties of the read as a whole. *)

\* C19: parse_root returns a Grid only when the whole token stream has been
\* consumed, its current token being the end of a stream that the lexer
\* ended without error, and every token being in the header, the columns or
\* a row of the grid; when lexing, reading or parsing fails, or the read is
\* cancelled at a pull, nothing is returned, no partial Grid either.
C19_GridOnlyAtEndOfStream ==
    /\ result # NoVal =>
          /\ pc = "done"
          /\ result = HGrid(meta, cols, rows)
          /\ Cur(It, ctx) = NoToken
          /\ ctx > Len(yielded) + 1
          /\ lexError = ""
          /\ Len(yielded) = (IF rowSpans = <<>> THEN colSpan[2] ELSE rowSpans[Len(rowSpans)][2])
    /\ pc \in {"failed", "cancelled"} => result = NoVal
    /\ pc = "failed" => error # ""

\* C19, its case: a grid of two rows has been returned, and every token of
\* the document is in its columns or its rows.
C19_Witness ==
    /\ pc = "done"
    /\ result # NoVal
    /\ Len(result.rows) = 2
    /\ rowSpans[2][2] = Len(yielded)

\* The HZincReader operation that reads the lexeme of a token of type t.
ReadLexeme(t, s) ==
    CASE t = "NUMBER" -> read_num(s)
      [] t = "DATE" -> read_date(s)
      [] t = "TIME" -> read_time(s)
      [] t = "DATETIME" -> read_date_time(s)
      [] t = "STR" -> read_str(s)
      [] t = "URI" -> read_uri(s)
      [] t = "SYMBOL" -> read_symbol(s)
      [] t = "REF" -> read_ref(s)
      [] t = "BOOL" -> read_bool(s)
      [] OTHER -> Ok(None)

\* C20: each operation of HZincReader, given a lexeme the lexer yields for
\* it, "-" as NUMBER and "1-2-3" as DATE included, returns a value or fails
\* with HReader.ReadException and with no other exception.
C20_ReadersRaiseReadException ==
    \A i \in 1..Len(yielded) :
        ReadLexeme(yielded[i].t, yielded[i].s).err \in {"", ReadException}

\* The parser stopped with every token consumed, and not in a reader: the
\* lexer ended without an error, cur is None, and the last token, if a
\* reader read it, was read.
EndOfTokens ==
    /\ pc = "failed"
    /\ lexError = ""
    /\ Cur(It, ctx) = NoToken
    /\ error \in {AssembleError, ReadException}
    /\ yielded # <<>> =>
          ReadLexeme(yielded[Len(yielded)].t, yielded[Len(yielded)].s).err = ""

\* C21: when the token stream ends where the parser still expects a token,
\* a literal as a row cell, list element or tag value included, the parser
\* fails with ZincParser.AssembleError.
C21_EndOfTokensIsAssembleError == EndOfTokens => error = AssembleError

-----------------------------------------------------------------------------
(* Properties of read_num and of parse_coord on their own. *)

\* The characters of a number before its unit.
NumberChars == {"0", "1", "2", "3", "4", "5", "6", "7", "8", "9", "_", ".", "e", "E", "+", "-"}

\* The text of the unit u of a Num: none for an absent unit.
UnitText(u) == IF u = None THEN "" ELSE u

\* read_num returned a Num for the text it was given.
NumRead == pc = "returned" /\ result.k = "Num"

\* The text s is a number followed by the unit u, with nothing after it.
EndsWithUnit(s, u) ==
    /\ Len(u) < Len(s)
    /\ SubSeq(s, Len(s) - Len(u) + 1, Len(s)) = u
    /\ \A i \in 1..(Len(s) - Len(u)) : At(s, i) \in NumberChars

\* C22: when read_num succeeds, the unit of the Num is absent or a non-empty
\* text of unit characters, and the whole text was consumed: it is NaN, INF,
\* -INF, or a number followed by that unit and by nothing else.
C22_UnitAndWholeInput ==
    NumRead =>
        /\ result.unit # None =>
              /\ Len(result.unit) > 0
              /\ \A i \in 1..Len(result.unit) : is_unit_char(At(result.unit, i))
        /\ \/ input \in {"NaN", "INF", "-INF"} /\ result.unit = None
           \/ EndsWithUnit(input, UnitText(result.unit))

\* read_num returned a Num with a unit for a text with sign, decimals and exponent.
C22_Witness == NumRead /\ result.unit = "kg" /\ input = "-1.5e2kg"

\* The float x is a number of lo..hi: x is m * 10^e.
Within(x, lo, hi) ==
    /\ x.sp = ""
    /\ IF x.e >= 0
       THEN lo <= x.m * Pow10(x.e) /\ x.m * Pow10(x.e) <= hi
       ELSE lo * Pow10(0 - x.e) <= x.m /\ x.m <= hi * Pow10(0 - x.e)

\* parse_coord has ended on the tokens of C(lat:lon), both numbers read.
CoordParsed ==
    /\ pc \in {"returned", "raised"}
    /\ yielded # <<>>
    /\ read_num(yielded[3].s).err = ""
    /\ read_num(yielded[5].s).err = ""

\* The values of the two NUMBER tokens.
LatRead == read_num(yielded[3].s).val.val
LonRead == read_num(yielded[5].s).val.val

\* C23: a Coord is constructed exactly when -90 <= lat <= 90 and
\* -180 <= lon <= 180, also by parse_coord: in range the Coord of the two
\* values is returned, out of range the construction fails and no value is
\* returned.
C23_CoordExactlyInRange ==
    CoordParsed =>
        /\ pc = "returned" <=> Within(LatRead, -90, 90) /\ Within(LonRead, -180, 180)
        /\ pc = "returned" => result = [k |-> "Coord", lat |-> LatRead, lon |-> LonRead]
        /\ pc = "raised" => result = NoVal /\ error = InvalidAttributeError

\* parse_coord failed on a latitude in range and a longitude out of range.
C23_Witness ==
    CoordParsed /\ pc = "raised" /\ yielded[3].s = "-90" /\ yielded[5].s = "180.5"

-----------------------------------------------------------------------------
(* Properties of the lexer. *)

\* Where the i-th token yielded starts and where the one before it ended.
TokenStart(i) == yieldedEnd[i] - Len(yielded[i].s)
TokenBefore(i) == IF i = 1 THEN 1 ELSE yieldedEnd[i - 1]

\* C24: tokenize delivers the tokens in input order with verbatim text: each
\* token yielded is the text of the input where it was scanned, it starts at
\* or after the end of the token before it, and what lies between the two is
\* whitespace, so the tokens and the whitespace skipped form a prefix of the
\* input and no character belongs to two tokens.
C24_TokensInOrderVerbatim ==
    \A i \in 1..Len(yielded) :
        /\ Len(yielded[i].s) > 0
        /\ TokenBefore(i) <= TokenStart(i)
        /\ yieldedEnd[i] <= Len(input) + 1
        /\ SubSeq(input, TokenStart(i), yieldedEnd[i] - 1) = yielded[i].s
        /\ \A k \in TokenBefore(i)..(TokenStart(i) - 1) : is_whitespace(At(input, k))

\* Several tokens are yielded, one of them after skipped whitespace.
C24_Witness ==
    /\ Len(yielded) >= 4
    /\ \E i \in 2..Len(yielded) : TokenBefore(i) < TokenStart(i)

\* The i-th character of the lexeme s follows an exponent mark: an e or E
\* that a sign or a digit follows.
InExponent(s, i) ==
    \E j \in 2..(i - 1) :
        At(s, j) \in {"e", "E"} /\ (At(s, j + 1) \in {"+", "-"} \/ is_digit(At(s, j + 1)))

\* The dashes and the colons counted in the lexeme s after its start
\* character: a dash outside an exponent, a colon that a digit follows.
DashesOf(s) == Cardinality({i \in 2..Len(s) : At(s, i) = "-" /\ ~InExponent(s, i)})
ColonsOf(s) == Cardinality({i \in 2..Len(s) : At(s, i) = ":" /\ is_digit(At(s, i + 1))})

\* The type for these counts.
KindOfCounts(dashes, colons) ==
    CASE dashes = 2 /\ colons = 0 -> "DATE"
      [] dashes = 0 /\ colons > 1 -> "TIME"
      [] dashes > 2 -> "DATETIME"
      [] OTHER -> "NUMBER"

\* C25: a lexeme scanned by _consume_number is classified by the dashes and
\* colons counted after its start character: two dashes and no colon give
\* DATE, no dash and more than one colon TIME, more than two dashes DATETIME,
\* anything else NUMBER; a colon counts when a digit follows it and a dash
\* counts outside an exponent.
C25_ClassifiedByDashesAndColons ==
    \A i \in 1..Len(yielded) :
        is_number_start(At(yielded[i].s, 1)) =>
            yielded[i].t = KindOfCounts(DashesOf(yielded[i].s), ColonsOf(yielded[i].s))

\* A lexeme with a dash inside an exponent and dashes after it has been
\* yielded as a NUMBER.
C25_Witness ==
    \E i \in 1..Len(yielded) :
        /\ yielded[i] = ZincToken("NUMBER", "1e-2-3-4")
        /\ DashesOf(yielded[i].s) = 0

\* The lexeme s starts with the two characters 0x.
HexForm(s) == Len(s) >= 2 /\ SubSeq(s, 1, 2) = "0x"

\* C26: a numeric lexeme that starts with 0x holds after them hex digits and
\* underscores only, one hex digit at least, and is a NUMBER; with no hex
\* digit after 0x no token is yielded for it.
C26_HexForm ==
    \A i \in 1..Len(yielded) :
        HexForm(yielded[i].s) =>
            /\ yielded[i].t = "NUMBER"
            /\ \A k \in 3..Len(yielded[i].s) :
                  is_hex_digit(At(yielded[i].s, k)) \/ At(yielded[i].s, k) = "_"
            /\ \E k \in 3..Len(yielded[i].s) : is_hex_digit(At(yielded[i].s, k))

\* The characters a backslash escapes in a string and in a URI.
StrEscapes == {"b", "f", "n", "r", "t", "\\", "$", "\""}
UriEscapes == {":", "/", "?", "#", "[", "]", "@", Backtick, "\\", "&", "=", ";"}

HexDigits == {"0", "1", "2", "3", "4", "5", "6", "7", "8", "9",
              "a", "b", "c", "d", "e", "f", "A", "B", "C", "D", "E", "F"}

\* The text s from its i-th character on is the rest of a string or URI that
\* the terminator q ends: characters from 0x20 on, escapes of the set
\* escapes, \u with four hex digits, and the unescaped q as the last
\* character and nowhere before.
RECURSIVE Terminated(_, _, _, _)
Terminated(s, i, escapes, q) ==
    IF i > Len(s) THEN FALSE
    ELSE IF At(s, i) = "\\" THEN
        IF At(s, i + 1) \in escapes THEN Terminated(s, i + 2, escapes, q)
        ELSE /\ At(s, i + 1) = "u"
             /\ \A k \in (i + 2)..(i + 5) : At(s, k) \in HexDigits
             /\ Terminated(s, i + 6, escapes, q)
    ELSE IF At(s, i) = q THEN i = Len(s)
    ELSE Ord(At(s, i)) >= 32 /\ Terminated(s, i + 1, escapes, q)

\* Where the lexeme starts that the lexer was scanning when it ended.
LastStart ==
    vomit_whitespace(input, IF yielded = <<>> THEN 1 ELSE yieldedEnd[Len(yielded)])

\* The lexer has ended in a string or URI.
EndedInText ==
    /\ pc \notin {"start", "tokenize"}
    /\ At(input, LastStart) \in {"\"", Backtick}

\* C27: a STR or URI token is yielded only for a lexeme whose unescaped
\* terminator was reached, over characters from 0x20 on, escapes of the
\* mode's set and \u with four hex digits; a string or URI that the lexer
\* ends in raised LexicalError and gave no token.
C27_TextTerminatedOrLexicalError ==
    /\ \A i \in 1..Len(yielded) :
          /\ yielded[i].t = "STR" =>
                At(yielded[i].s, 1) = "\"" /\ Terminated(yielded[i].s, 2, StrEscapes, "\"")
          /\ yielded[i].t = "URI" =>
                At(yielded[i].s, 1) = Backtick
                /\ Terminated(yielded[i].s, 2, UriEscapes, Backtick)
    /\ EndedInText => lexError = LexicalError

\* The lexer ended in a string on a \u with a character that is no hex digit
\* among the four, after yielding the strings of the header.
C27_Witness ==
    /\ EndedInText
    /\ lexError = LexicalError
    /\ input = Document(GoodHeader, "x", <<"\"a\\u00g9\"">>, "\n")
    /\ At(input, LastStart) = "\""
    /\ \E i \in 1..Len(yielded) : yielded[i].t = "STR"

-----------------------------------------------------------------------------
(* Properties of parse_literal. *)

\* The literal that the tokens toks start with, a KEYWORD first: by the
\* lookahead a coord, a bin or an xstr, or by the lexeme a singleton.
KeywordLiteral(toks) ==
    IF Len(toks) >= 2 /\ toks[2].t = "LPAREN"
    THEN CASE toks[1].s = "C" -> parse_coord(Yielding(toks), Made(toks))
           [] toks[1].s = "Bin" -> parse_bin(Yielding(toks), Made(toks))
           [] OTHER -> parse_xstr(Yielding(toks), Made(toks))
    ELSE CASE toks[1].s = "N" -> Done(Made(toks) + 1, HNull)
           [] toks[1].s = "M" -> Done(Made(toks) + 1, HMarker)
           [] toks[1].s = "R" -> Done(Made(toks) + 1, HRemove)
           [] toks[1].s = "NA" -> Done(Made(toks) + 1, HNa)
           [] OTHER -> Fail(Made(toks), AssembleError)

\* The grid of one column whose one row is the line L.
OneCell(L) == Document(GoodHeader, "x", <<L>>, "\n")

\* The read of OneCell(L) ended as the literal e of the whole line does.
EndsAs(L, e) ==
    /\ e.err = "" /\ Cur(Yielding(Tokens(L).toks), e.ctx) = NoToken
          => Returned /\ rows = <<HRow(<<e.val>>)>>
    /\ e.err # "" => pc = "failed" /\ error = e.err

\* C28: parse_literal tells a KEYWORD apart by its lookahead: before LPAREN
\* it parses a coord for C, a bin for Bin and an xstr for any other keyword;
\* otherwise it returns Null, Marker, Remove or NA for N, M, R, NA and raises
\* AssembleError for any other keyword.
C28_KeywordByLookahead ==
    \A L \in KeywordLines \cup {CoordCell("1", "-2"), CoordCell("91", "-2")} :
        Ended /\ input = OneCell(L) => EndsAs(L, KeywordLiteral(Tokens(L).toks))

\* The keyword N before a parenthesis has been read as an xstr, not as Null.
C28_Witness ==
    /\ Returned
    /\ input = OneCell("N(\"a\")")
    /\ rows = <<HRow(<<HXstr("N", HStr("a"))>>)>>

-----------------------------------------------------------------------------
(* Properties of parse_list. *)

\* The tokens toks are '[' (NUMBER (',' NUMBER)*)? ']': a number at every
\* even place, a comma at every odd place between them.
ListOfNumbers(toks) ==
    /\ Len(toks) >= 2
    /\ toks[1].t = "LBRACKET"
    /\ toks[Len(toks)].t = "RBRACKET"
    /\ Len(toks) = 2 \/ Len(toks) % 2 = 1
    /\ \A i \in 2..(Len(toks) - 1) :
          toks[i].t = (IF i % 2 = 0 THEN "NUMBER" ELSE "COMMA")

\* C29: parse_list accepts exactly the token sequences
\* '[' (literal (',' literal)*)? ']': a row of one list of numbers is read
\* when its tokens are of this form, and otherwise, with two numbers that no
\* comma separates or a comma before ']', the read fails.
C29_ListGrammar ==
    \A L \in ListLines :
        Ended /\ input = OneCell(L) => (Returned <=> ListOfNumbers(Tokens(L).toks))

-----------------------------------------------------------------------------
(* Properties of the client-final request of Client.authenticate. *)

\* The parameters of the Authorization header of the k-th request.
RequestParams(k) ==
    MessageParameters_decode(split_once(requests[k].Authorization, " ")[2]).val

\* The server-first message of the second response, and the client-final
\* message that answers it: it repeats the nonce of the server.
ServerFirstText == unpadded_base64_decode(Param(2, "data")).val
ClientFinalFor(serverFirst) ==
    "c=biws,r=" \o SubSeq(serverFirst, 3, Len(serverFirst)) \o ",p=" \o scram.password

\* C30: the client-final request carries the handshakeToken of the second
\* response, not the one of the hello response, and its data is the
\* client-final message that answers the server-first message decoded from
\* the data of that same response.
C30_ClientFinalOfSecondResponse ==
    Len(requests) >= 3 =>
        /\ split_once(requests[3].Authorization, " ")[1] = "scram"
        /\ GetItem(RequestParams(3), "handshakeToken") = Ok(Param(2, "handshakeToken"))
        /\ GetItem(RequestParams(3), "data")
              = Ok(unpadded_base64_encode(ClientFinalFor(ServerFirstText)))

\* The client-final request went out after a hello response and a
\* server-first response that carry different handshake tokens.
C30_Witness ==
    /\ Len(requests) = 3
    /\ Param(1, "handshakeToken") = "aa"
    /\ Param(2, "handshakeToken") = "bb"
    /\ ServerFirstText = "r=csn"

-----------------------------------------------------------------------------
(* Properties of the unit characters. *)

\* isUnitChar of the grammar: a letter, one of % _ / $, or a code point
\* above 0x7F.
UnitCharOfGrammar(c) == is_alpha(c) \/ c \in {"%", "_", "/", "$"} \/ Ord(c) > 127

\* C31: is_unit_char takes exactly the letters, % _ / $ and the code points
\* above 0x7F, U+0080 being the smallest of them, and the number scanner
\* takes the same characters: the scan of a number never stops before one.
C31_UnitCharsAbove7F ==
    /\ \A k \in 1..Len(input) :
          is_unit_char(At(input, k)) <=> UnitCharOfGrammar(At(input, k))
    /\ \A i \in 1..Len(yielded) :
          (yielded[i].t = "NUMBER" /\ yieldedEnd[i] <= Len(input)) =>
              ~UnitCharOfGrammar(At(input, yieldedEnd[i]))

-----------------------------------------------------------------------------
(* Properties of the characters the wrapper delivers. *)

\* The characters the wrapper has not delivered yet: the rest of its buffer
\* and the chunks its source still holds.
Undelivered == SubSeq(buffer, read + 1, Len(buffer)) \o JoinLines(source, "")

\* The last read is the first one that signalled the end of the stream.
FirstEndSignalled ==
    /\ reads # <<>>
    /\ reads[Len(reads)] = None
    /\ \A k \in 1..(Len(reads) - 1) : reads[k] # None

\* C32: the wrapper signals the end of the stream only after it has
\* delivered every character of every chunk of its source: when a read first
\* signals the end no character is left in the buffer or in the source,
\* empty chunks in the sequence included.
C32_WholeStreamBeforeEnd == FirstEndSignalled => Undelivered = ""

-----------------------------------------------------------------------------
(* Properties of the lexer context over the wrapper. *)

\* C33: the lexer has pulled at most two characters more than it has
\* consumed, the wrapper takes a chunk from its source only when every
\* character of its buffer has been read, and _read stays between 0 and the
\* length of the buffer.
C33_StreamingBound ==
    [][/\ Len(reads') <= pos' + 2
      /\ (source' # source) => (read = Len(buffer))
      /\ 0 <= read' /\ read' <= Len(buffer')]_vars

\* The lexer has consumed characters and stands in the middle of a chunk
\* that was fetched after another one.
C33_Witness ==
    /\ pc = "lexing"
    /\ pos >= 2
    /\ Len(reads) = pos + 2
    /\ 0 < read /\ read < Len(buffer)

-----------------------------------------------------------------------------
(* Termination of the read. *)

\* The outcome r of a loop body entered in the context c: it raised or it
\* left the context further on.
Advances(r, c) == r.err # "" \/ r.ctx > c

\* The bodies of the loops of the parser, entered at any token of the
\* document: a list element, a tag, a column, a row.
ParserLoopsAdvance ==
    \A c \in 2..(Len(yielded) + 2) :
        /\ Advances(parse_literal(It, c), c)
        /\ Advances(parse_tag(It, c), c)
        /\ Advances(parse_col(It, c, 0), c)
        /\ Advances(parse_row(It, c), c)

\* One iteration of the loop of tokenize, entered at any character of the
\* document.
LexerLoopAdvances ==
    \A p \in 1..Len(input) : tokenize(input, p).err # "" \/ tokenize(input, p).p > p

\* C34: the read of a finite document terminates, by returning a grid or by
\* raising; every resumption of the lexer that yields a token has consumed
\* a character, every row parsed has consumed a token, and every loop body
\* of the lexer and of the parser consumes or raises wherever it is entered.
C34_PipelineTerminates ==
    /\ <>(pc \in {"done", "failed"})
    /\ [][/\ (pc = "tokenize" /\ pc' = "tokenize") => (pos' > pos)
         /\ (pc = "rows" /\ pc' = "rows") => (ctx' > ctx)]_vars
    /\ [](pc \in {"done", "failed"} => ParserLoopsAdvance /\ LexerLoopAdvances)

\* A grid of several rows, one of them a list, was returned.
C34_Witness ==
    /\ pc = "done"
    /\ Len(rows) >= 2
    /\ Len(yielded) >= 10

-----------------------------------------------------------------------------
(* Properties of the lexer and the readers together. *)

\* C35: the lexer and the reader agree on strings and URIs: read_str
\* accepts every lexeme that tokenize yields as a STR token, read_uri every
\* lexeme it yields as a URI token, escapes of the mode's set and \uXXXX
\* escapes included.
C35_ReadersAcceptTextTokens ==
    \A i \in 1..Len(yielded) :
        /\ yielded[i].t = "STR" => read_str(yielded[i].s).err = ""
        /\ yielded[i].t = "URI" => read_uri(yielded[i].s).err = ""

-----------------------------------------------------------------------------
(* Properties of the refs. *)

\* C36: the id of every Ref cell holds ref characters only: neither the @
\* that starts the lexeme nor the space that ends it, also when a space and
\* a name string follow the ref.
C36_RefIdOfRefChars ==
    \A i \in 1..Len(rows) : \A j \in 1..Len(rows[i]) :
        rows[i][j].k = "Ref" =>
            \A n \in 1..Len(rows[i][j].val) : is_ref_part(At(rows[i][j].val, n))

-----------------------------------------------------------------------------
(* Properties of the rows. *)

\* The i-th row was parsed from a line that holds nothing but its linefeed.
EmptyLine(i) ==
    rowSpans[i][1] = rowSpans[i][2] /\ yielded[rowSpans[i][1]].t = "LINEFEED"

\* C37: parse_row returns no row of zero cells and never raises its "Row
\* must contain at least one item" error: wherever in a document the row
\* loop is entered it leaves with a cell in the list or with the exception
\* of a step, and an empty line gives the row of the one cell Null.
C37_RowHasACell ==
    /\ \A i \in 1..Len(rows) :
          /\ Len(rows[i]) >= 1
          /\ EmptyLine(i) => rows[i] = <<HNull>>
    /\ Ended =>
          \A c \in 2..(Len(yielded) + 2) :
              ParseRowLoop(It, c, <<>>).err = "" => Len(ParseRowLoop(It, c, <<>>).val) >= 1

\* A grid was returned whose rows hold one parsed from an empty line.
C37_Witness ==
    /\ Returned
    /\ Len(rows) >= 2
    /\ \E i \in 1..Len(rows) : EmptyLine(i)

-----------------------------------------------------------------------------
(* Properties of the end of the document. *)

\* The last token of the stream is a LINEFEED.
EndsWithLinefeed == yielded # <<>> /\ yielded[Len(yielded)].t = "LINEFEED"

\* C38: parse_root returns a Grid only for a token stream that ends with a
\* LINEFEED: a document whose last row, or whose column line, has no
\* linefeed before the end of the stream is rejected with an error.
C38_GridEndsWithLinefeed ==
    /\ Returned => EndsWithLinefeed
    /\ (Ended /\ ~EndsWithLinefeed) => (pc = "failed" /\ error # "" /\ result = NoVal)

\* The read of a document that ends with a literal, with no linefeed after
\* it, has failed after the lexer yielded every token of the document.
C38_Witness ==
    /\ pc = "failed"
    /\ lexError = ""
    /\ yielded # <<>>
    /\ yielded[Len(yielded)].t = "NUMBER"
    /\ yieldedEnd[Len(yielded)] = Len(input) + 1
    /\ cols # <<>>

-----------------------------------------------------------------------------
(* Properties of the session over several calls of authenticate. *)

\* The headers of the session that are named Authorization.
AuthorizationHeaders == {i \in 1..Len(sessionHeaders) : sessionHeaders[i][1] = "Authorization"}

\* The header value v ends with the token t.
EndsWithToken(v, t) == Len(v) >= Len(t) /\ SubSeq(v, Len(v) - Len(t) + 1, Len(v)) = t

\* C39: after every successful call of authenticate on one Client the
\* session holds exactly one Authorization header, and it carries the
\* authToken of the handshake of that call.
C39_OneAuthorizationHeader ==
    authPc = "authed" =>
        /\ Cardinality(AuthorizationHeaders) = 1
        /\ \A i \in AuthorizationHeaders :
              EndsWithToken(sessionHeaders[i][2], Param(3, "authToken"))

-----------------------------------------------------------------------------
(* Properties of the equality of Num values. *)

\* C40: two Num values are equal only if their numeric values are equal and
\* their units are equal (both absent or the same string): an assertion that
\* compares a read Num with an expected Num passes only if the two have the
\* same value and the same unit.
C40_NumEqualityChecksUnit ==
    pc = "passed" =>
        /\ result.val = rows[1].val
        /\ result.unit = rows[1].unit

=============================================================================
